---- MODULE Spec2Model ----
(***************************************************************************)
(* A model of src/objects/js-date-time-format.cc (V8's Intl.DateTimeFormat *)
(* implementation): the time zone canonicalizer, ToDateTimeOptions, the     *)
(* hour-cycle negotiation and skeleton construction of Initialize, and the *)
(* field-position walk of FormatToParts.                                   *)
(*                                                                         *)
(* Characters of time zone identifiers are ASCII codes (the case mapping   *)
(* of the source is arithmetic on them); characters of skeletons and       *)
(* patterns are one-character strings.                                     *)
(***************************************************************************)
EXTENDS Integers, Sequences, FiniteSets, TLC

VARIABLES
    pc,             \* "ready" before the modelled call, "done" after it
    tzInput,        \* CanonicalizeTimeZoneID: the input string
    tzResult,       \* CanonicalizeTimeZoneID: the returned string
    formatted,      \* FormatToParts: the string the engine formatted
    spans,          \* FormatToParts: the engine's field positions
    parts,          \* FormatToParts: the returned array of parts
    heap,           \* the JS objects: <<[proto, own]>>, an object's id is its index
    callerOptions,  \* the options argument: an object, or undefined
    required,       \* ToDateTimeOptions: RequiredOption
    defaults,       \* ToDateTimeOptions: DefaultsOption
    optResult,      \* ToDateTimeOptions: the returned object
    r,              \* Initialize: the Intl::ResolvedLocale of ResolveLocale
    icu,            \* Initialize: the behaviour of the format engine
    dtf,            \* Initialize: the JSDateTimeFormat being initialized
    initStatus,     \* Initialize: "none", "ok", "RangeError", "InvalidTimeZone", "Fatal"
    skeleton,       \* Initialize: the skeleton handed to CreateICUDateFormat
    requests,       \* Initialize: the locales asked of the SimpleDateFormat constructor
    date,           \* the date argument of a formatting call
    callResult,     \* what a formatting call returned or threw
    cache,          \* the isolate's cached ICU objects, by ICUObjectCacheType
    calls           \* the ToLocaleDateTime calls begun, each with its position

tzVars    == <<tzInput, tzResult>>
partsVars == <<formatted, spans, parts>>
optVars   == <<heap, callerOptions, required, defaults, optResult>>
initVars  == <<r, icu, dtf, initStatus, skeleton, requests>>
callVars  == <<date, callResult, cache, calls>>
vars      == <<pc, tzInput, tzResult, formatted, spans, parts, heap,
               callerOptions, required, defaults, optResult, r, icu, dtf,
               initStatus, skeleton, requests, date, callResult, cache,
               calls>>

-----------------------------------------------------------------------------
(* Bounds of the model.                                                    *)

\* The characters typed after the prefix of a time zone identifier.
MaxTail == 3
\* The length of the string the engine formats.
MaxLen == 3
\* The number of field positions the engine reports.
MaxSpans == 2
\* The number of own properties of the options object given to Initialize.
MaxOptions == 2
\* The characters typed after the start of a location name.
MaxLocation == 4
\* The number of ToLocaleDateTime calls begun.
MaxCalls == 2
\* The length of a formatter pattern read back by ResolvedOptions.
MaxPattern == 5

-----------------------------------------------------------------------------
(* Characters and strings.                                                 *)

UpperLetters == <<"A","B","C","D","E","F","G","H","I","J","K","L","M",
                  "N","O","P","Q","R","S","T","U","V","W","X","Y","Z">>
LowerLetters == <<"a","b","c","d","e","f","g","h","i","j","k","l","m",
                  "n","o","p","q","r","s","t","u","v","w","x","y","z">>
Digits       == <<"0","1","2","3","4","5","6","7","8","9">>

\* The ASCII code of a character.
Ord(c) ==
    IF \E i \in 1..26 : UpperLetters[i] = c
    THEN 64 + (CHOOSE i \in 1..26 : UpperLetters[i] = c)
    ELSE IF \E i \in 1..26 : LowerLetters[i] = c
    THEN 96 + (CHOOSE i \in 1..26 : LowerLetters[i] = c)
    ELSE IF \E i \in 1..10 : Digits[i] = c
    THEN 47 + (CHOOSE i \in 1..10 : Digits[i] = c)
    ELSE CASE c = "+" -> 43
           [] c = "-" -> 45
           [] c = "/" -> 47
           [] c = ":" -> 58
           [] c = "_" -> 95

\* The std::string spelled by a tuple of characters.
Str(t) == [i \in 1..Len(t) |-> Ord(t[i])]

EmptyString == <<>>

-----------------------------------------------------------------------------
(* The time zone canonicalizer.                                            *)

GetGMTTzID_AnyDigit(input) ==
    LET ret == Str(<<"E","t","c","/","G","M","T">>)
    IN  CASE Len(input) = 8 ->
               IF input[8] = Ord("0") THEN ret \o <<Ord("0")>> ELSE EmptyString
          [] Len(input) = 9 ->
               IF (input[8] = Ord("+") \/ input[8] = Ord("-"))
                  /\ Ord("0") <= input[9] /\ input[9] <= Ord("9")
               THEN ret \o <<input[8], input[9]>>
               ELSE EmptyString
          [] Len(input) = 10 ->
               IF (input[8] = Ord("+") \/ input[8] = Ord("-"))
                  /\ input[9] = Ord("1")
                  /\ Ord("0") <= input[10] /\ input[10] <= Ord("9")
               THEN ret \o <<input[8], input[9], input[10]>>
               ELSE EmptyString
          [] OTHER -> EmptyString

\* GetGMTTzID: the offset grammar; input[k] of the source is input[k+1] here.
GetGMTTzID(input) ==
    LET ret == Str(<<"E","t","c","/","G","M","T">>)
    IN  CASE Len(input) = 8 ->
               IF input[8] = Ord("0") THEN ret \o <<Ord("0")>> ELSE EmptyString
          [] Len(input) = 9 ->
               IF (input[8] = Ord("+") \/ input[8] = Ord("-"))
                  /\ Ord("0") <= input[9] /\ input[9] <= Ord("9")
               THEN ret \o <<input[8], input[9]>>
               ELSE EmptyString
          [] Len(input) = 10 ->
               IF (input[8] = Ord("+") \/ input[8] = Ord("-"))
                  /\ input[9] = Ord("1")
                  /\ Ord("0") <= input[10] /\ input[10] <= Ord("4")
               THEN ret \o <<input[8], input[9], input[10]>>
               ELSE EmptyString
          [] OTHER -> EmptyString

IsAsciiAlpha(ch) ==
    \/ Ord("A") <= ch /\ ch <= Ord("Z")
    \/ Ord("a") <= ch /\ ch <= Ord("z")

LocaleIndependentAsciiToUpper(ch) ==
    IF Ord("a") <= ch /\ ch <= Ord("z") THEN ch - Ord("a") + Ord("A") ELSE ch

LocaleIndependentAsciiToLower(ch) ==
    IF Ord("A") <= ch /\ ch <= Ord("Z") THEN ch - Ord("A") + Ord("a") ELSE ch

\* One iteration of the loop of ToTitleCaseTimezoneLocation over the state
\* [title_cased, word_length, valid]; valid = FALSE is the early return.
TitleCaseStep(st, ch) ==
    IF ~st.valid THEN st
    ELSE IF IsAsciiAlpha(ch)
    THEN [st EXCEPT
            !.title_cased = Append(@, IF st.word_length = 0
                                      THEN LocaleIndependentAsciiToUpper(ch)
                                      ELSE LocaleIndependentAsciiToLower(ch)),
            !.word_length = @ + 1]
    ELSE IF ch = Ord("_") \/ ch = Ord("-") \/ ch = Ord("/")
    THEN LET pos    == Len(st.title_cased) - 1
             substr == IF st.word_length = 2
                       THEN SubSeq(st.title_cased, pos, pos + 1)
                       ELSE EmptyString
             lowered == IF st.word_length = 2
                           /\ substr \in {Str(<<"O","f">>), Str(<<"E","s">>),
                                          Str(<<"A","u">>)}
                        THEN [st.title_cased EXCEPT
                                ![pos] = LocaleIndependentAsciiToLower(@)]
                        ELSE st.title_cased
         IN  [st EXCEPT !.title_cased = Append(lowered, ch),
                        !.word_length = 0]
    ELSE [st EXCEPT !.valid = FALSE]

RECURSIVE TitleCaseLoop(_, _, _)
TitleCaseLoop(st, input, i) ==
    IF i > Len(input) THEN st
    ELSE TitleCaseLoop(TitleCaseStep(st, input[i]), input, i + 1)

ToTitleCaseTimezoneLocation_KeepsPartial(input) ==
    LET st == TitleCaseLoop([title_cased |-> EmptyString, word_length |-> 0,
                             valid |-> TRUE], input, 1)
    IN  st.title_cased

ToTitleCaseTimezoneLocation(input) ==
    LET st == TitleCaseLoop([title_cased |-> EmptyString, word_length |-> 0,
                             valid |-> TRUE], input, 1)
    IN  IF st.valid THEN st.title_cased ELSE EmptyString

\* strncmp(upper.c_str(), "ETC/GMT", 7) == 0
HasEtcGmtPrefix(upper) ==
    /\ Len(upper) >= 7
    /\ SubSeq(upper, 1, 7) = Str(<<"E","T","C","/","G","M","T">>)

IsUtcAlias(upper) ==
    \/ upper = Str(<<"U","T","C">>)
    \/ upper = Str(<<"G","M","T">>)
    \/ upper = Str(<<"E","T","C","/","U","T","C">>)
    \/ upper = Str(<<"E","T","C","/","G","M","T">>)

CanonicalizeTimeZoneID_GmtFirst(input) ==
    LET upper == [i \in 1..Len(input) |->
                     LocaleIndependentAsciiToUpper(input[i])]
    IN  IF HasEtcGmtPrefix(upper) THEN GetGMTTzID(input)
        ELSE IF IsUtcAlias(upper) THEN Str(<<"U","T","C">>)
        ELSE ToTitleCaseTimezoneLocation(input)

CanonicalizeTimeZoneID(input) ==
    LET upper == [i \in 1..Len(input) |->
                     LocaleIndependentAsciiToUpper(input[i])]
    IN  IF IsUtcAlias(upper) THEN Str(<<"U","T","C">>)
        ELSE IF HasEtcGmtPrefix(upper) THEN GetGMTTzID(input)
        ELSE ToTitleCaseTimezoneLocation(input)

-----------------------------------------------------------------------------
(* FormatToParts.                                                          *)

\* IcuDateFieldIdToDateType; "-1" is the id the walk gives a literal.
IcuDateFieldIdToDateType(field_id) ==
    CASE field_id = "-1" -> "literal"
      [] field_id \in {"UDAT_YEAR_FIELD", "UDAT_EXTENDED_YEAR_FIELD",
                       "UDAT_YEAR_NAME_FIELD"} -> "year"
      [] field_id \in {"UDAT_MONTH_FIELD", "UDAT_STANDALONE_MONTH_FIELD"}
            -> "month"
      [] field_id = "UDAT_DATE_FIELD" -> "day"
      [] field_id \in {"UDAT_HOUR_OF_DAY1_FIELD", "UDAT_HOUR_OF_DAY0_FIELD",
                       "UDAT_HOUR1_FIELD", "UDAT_HOUR0_FIELD"} -> "hour"
      [] field_id = "UDAT_MINUTE_FIELD" -> "minute"
      [] field_id = "UDAT_SECOND_FIELD" -> "second"
      [] field_id \in {"UDAT_DAY_OF_WEEK_FIELD", "UDAT_DOW_LOCAL_FIELD",
                       "UDAT_STANDALONE_DAY_FIELD"} -> "weekday"
      [] field_id = "UDAT_AM_PM_FIELD" -> "dayPeriod"
      [] field_id \in {"UDAT_TIMEZONE_FIELD", "UDAT_TIMEZONE_RFC_FIELD",
                       "UDAT_TIMEZONE_GENERIC_FIELD",
                       "UDAT_TIMEZONE_SPECIAL_FIELD",
                       "UDAT_TIMEZONE_LOCALIZED_GMT_OFFSET_FIELD",
                       "UDAT_TIMEZONE_ISO_FIELD",
                       "UDAT_TIMEZONE_ISO_LOCAL_FIELD"} -> "timeZoneName"
      [] field_id = "UDAT_ERA_FIELD" -> "era"
      [] OTHER -> "UNREACHABLE"

\* Intl::AddElement of the part for formatted[begin_pos, end_pos); the two
\* positions are kept with the part to state what it covers.
AddElement(result, field_id, text, begin_pos, end_pos) ==
    Append(result, [type      |-> IcuDateFieldIdToDateType(field_id),
                    value     |-> SubSeq(text, begin_pos + 1, end_pos),
                    begin_pos |-> begin_pos,
                    end_pos   |-> end_pos])

\* The while loop of FormatToParts from the i-th field position on; returns
\* [result, previous_end_pos].
RECURSIVE PartsLoop(_, _, _, _, _)
PartsLoop(result, previous_end_pos, text, fps, i) ==
    IF i > Len(fps)
    THEN [result |-> result, previous_end_pos |-> previous_end_pos]
    ELSE LET begin_pos == fps[i].begin
             end_pos   == fps[i].end
             withLiteral ==
                 IF previous_end_pos < begin_pos
                 THEN AddElement(result, "-1", text, previous_end_pos,
                                 begin_pos)
                 ELSE result
         IN  PartsLoop(AddElement(withLiteral, fps[i].field, text, begin_pos,
                                  end_pos),
                       end_pos, text, fps, i + 1)

FormatToParts_NoTrailingLiteral(text, fps) ==
    IF Len(text) = 0 THEN <<>>
    ELSE PartsLoop(<<>>, 0, text, fps, 1).result

\* FormatToParts on the string and the field positions the engine gave.
FormatToParts(text, fps) ==
    IF Len(text) = 0 THEN <<>>
    ELSE LET walked == PartsLoop(<<>>, 0, text, fps, 1)
         IN  IF walked.previous_end_pos < Len(text)
             THEN AddElement(walked.result, "-1", text,
                             walked.previous_end_pos, Len(text))
             ELSE walked.result

-----------------------------------------------------------------------------
(* JS values and objects.  A value is a record with a type; an object is   *)
(* [proto, own] with own the sequence of its own data properties in        *)
(* insertion order; heap[id] is the object with that id.                   *)

Undefined       == [type |-> "undefined"]
Null            == [type |-> "null"]
StringValue(s)  == [type |-> "string", val |-> s]
BooleanValue(b) == [type |-> "boolean", val |-> b]
ObjectRef(id)   == [type |-> "object", id |-> id]

IsUndefined(v) == v.type = "undefined"

HasOwnProperty(h, ref, key) ==
    \E i \in 1..Len(h[ref.id].own) : h[ref.id].own[i].key = key

OwnValue(h, ref, key) ==
    LET own == h[ref.id].own
    IN  own[CHOOSE i \in 1..Len(own) : own[i].key = key].value

OwnKeys(h, ref) ==
    { h[ref.id].own[i].key : i \in 1..Len(h[ref.id].own) }

\* Object::GetPropertyOrElement: the own property, else the prototype's.
RECURSIVE GetProperty(_, _, _)
GetProperty(h, ref, key) ==
    IF HasOwnProperty(h, ref, key) THEN OwnValue(h, ref, key)
    ELSE IF h[ref.id].proto.type = "object"
    THEN GetProperty(h, h[ref.id].proto, key)
    ELSE Undefined

\* JSReceiver::CreateDataProperty: defines an own property of the receiver.
CreateDataProperty(h, ref, key, value) ==
    LET own == h[ref.id].own
    IN  IF HasOwnProperty(h, ref, key)
        THEN [h EXCEPT ![ref.id].own =
                 [i \in 1..Len(own) |->
                     IF own[i].key = key
                     THEN [key |-> key, value |-> value] ELSE own[i]]]
        ELSE [h EXCEPT ![ref.id].own =
                 Append(own, [key |-> key, value |-> value])]

\* Factory::NewJSObjectWithNullProto and JSObject::ObjectCreate: a new object
\* with no own property; returns [heap, object].
NewObject(h, proto) ==
    [heap   |-> Append(h, [proto |-> proto, own |-> <<>>]),
     object |-> ObjectRef(Len(h) + 1)]

-----------------------------------------------------------------------------
(* ToDateTimeOptions.                                                      *)

IsPropertyUndefined(h, options, property) ==
    IsUndefined(GetProperty(h, options, property))

NeedsDefault_LastProperty(h, options, props) ==
    IsPropertyUndefined(h, options, props[Len(props)])

\* NeedsDefault: no property of props has a value on options.
NeedsDefault(h, options, props) ==
    \A i \in 1..Len(props) : IsPropertyUndefined(h, options, props[i])

\* CreateDefault: props[i..] are set to "numeric" on options; returns the heap.
RECURSIVE CreateDefault(_, _, _, _)
CreateDefault(h, options, props, i) ==
    IF i > Len(props) THEN h
    ELSE CreateDefault(CreateDataProperty(h, options, props[i],
                                          StringValue("numeric")),
                       options, props, i + 1)

WrapOptions_NoObjectCreate(h, input_options) ==
    IF IsUndefined(input_options)
    THEN NewObject(h, Null)
    ELSE [heap |-> h, object |-> input_options]

\* Steps 1 and 2: the options object ToDateTimeOptions works on.
WrapOptions(h, input_options) ==
    IF IsUndefined(input_options)
    THEN NewObject(h, Null)
    ELSE NewObject(h, input_options)

NeedDefaults_TimeOverwrites(h, options, req) ==
    LET afterDate ==
            IF req = "any" \/ req = "date"
            THEN NeedsDefault(h, options, <<"weekday", "year", "month", "day">>)
            ELSE TRUE
    IN  IF req = "any" \/ req = "time"
        THEN NeedsDefault(h, options, <<"hour", "minute", "second">>)
        ELSE afterDate

\* Steps 3 to 5: needs_default.
NeedDefaults(h, options, req) ==
    LET afterDate ==
            IF req = "any" \/ req = "date"
            THEN NeedsDefault(h, options, <<"weekday", "year", "month", "day">>)
            ELSE TRUE
    IN  IF req = "any" \/ req = "time"
        THEN afterDate
             /\ NeedsDefault(h, options, <<"hour", "minute", "second">>)
        ELSE afterDate

\* Steps 6 and 7: the defaults written when needs_default holds.
ApplyDefaults(h, options, def) ==
    LET afterDate ==
            IF def = "all" \/ def = "date"
            THEN CreateDefault(h, options, <<"year", "month", "day">>, 1)
            ELSE h
    IN  IF def = "all" \/ def = "time"
        THEN CreateDefault(afterDate, options,
                           <<"hour", "minute", "second">>, 1)
        ELSE afterDate

ToDateTimeOptions_DefaultsByRequired(h, input_options, req, def) ==
    LET wrapped == WrapOptions(h, input_options)
    IN  IF NeedDefaults(wrapped.heap, wrapped.object, req)
        THEN [heap   |-> ApplyDefaults(wrapped.heap, wrapped.object,
                                       IF req = "any" THEN "all" ELSE req),
              object |-> wrapped.object]
        ELSE wrapped

\* ToDateTimeOptions(input_options, required, defaults); returns
\* [heap, object].
ToDateTimeOptions(h, input_options, req, def) ==
    LET wrapped == WrapOptions(h, input_options)
    IN  IF NeedDefaults(wrapped.heap, wrapped.object, req)
        THEN [heap   |-> ApplyDefaults(wrapped.heap, wrapped.object, def),
              object |-> wrapped.object]
        ELSE wrapped

-----------------------------------------------------------------------------
(* The pattern tables.  A token is a sequence of one-character strings.    *)

Rep(ch, n) == [i \in 1..n |-> ch]

PatternMap(pattern, value) == [pattern |-> pattern, value |-> value]

PatternItem(property, pairs, allowed_values) ==
    [property |-> property, pairs |-> pairs, allowed_values |-> allowed_values]

kLongShort                    == {"long", "short"}
kNarrowLongShort              == {"narrow", "long", "short"}
k2DigitNumeric                == {"2-digit", "numeric"}
kNarrowLongShort2DigitNumeric == {"narrow", "long", "short", "2-digit",
                                  "numeric"}

GetPatternItems ==
    << PatternItem("weekday",
                   << PatternMap(Rep("E", 5), "narrow"),
                      PatternMap(Rep("E", 4), "long"),
                      PatternMap(Rep("E", 3), "short"),
                      PatternMap(Rep("c", 5), "narrow"),
                      PatternMap(Rep("c", 4), "long"),
                      PatternMap(Rep("c", 3), "short") >>,
                   kNarrowLongShort),
       PatternItem("era",
                   << PatternMap(Rep("G", 5), "narrow"),
                      PatternMap(Rep("G", 4), "long"),
                      PatternMap(Rep("G", 3), "short") >>,
                   kNarrowLongShort),
       PatternItem("year",
                   << PatternMap(Rep("y", 2), "2-digit"),
                      PatternMap(Rep("y", 1), "numeric") >>,
                   k2DigitNumeric),
       PatternItem("month",
                   << PatternMap(Rep("M", 5), "narrow"),
                      PatternMap(Rep("M", 4), "long"),
                      PatternMap(Rep("M", 3), "short"),
                      PatternMap(Rep("M", 2), "2-digit"),
                      PatternMap(Rep("M", 1), "numeric"),
                      PatternMap(Rep("L", 5), "narrow"),
                      PatternMap(Rep("L", 4), "long"),
                      PatternMap(Rep("L", 3), "short"),
                      PatternMap(Rep("L", 2), "2-digit"),
                      PatternMap(Rep("L", 1), "numeric") >>,
                   kNarrowLongShort2DigitNumeric),
       PatternItem("day",
                   << PatternMap(Rep("d", 2), "2-digit"),
                      PatternMap(Rep("d", 1), "numeric") >>,
                   k2DigitNumeric),
       PatternItem("hour",
                   << PatternMap(Rep("H", 2), "2-digit"),
                      PatternMap(Rep("H", 1), "numeric"),
                      PatternMap(Rep("h", 2), "2-digit"),
                      PatternMap(Rep("h", 1), "numeric"),
                      PatternMap(Rep("k", 2), "2-digit"),
                      PatternMap(Rep("k", 1), "numeric"),
                      PatternMap(Rep("K", 2), "2-digit"),
                      PatternMap(Rep("K", 1), "numeric") >>,
                   k2DigitNumeric),
       PatternItem("minute",
                   << PatternMap(Rep("m", 2), "2-digit"),
                      PatternMap(Rep("m", 1), "numeric") >>,
                   k2DigitNumeric),
       PatternItem("second",
                   << PatternMap(Rep("s", 2), "2-digit"),
                      PatternMap(Rep("s", 1), "numeric") >>,
                   k2DigitNumeric),
       PatternItem("timeZoneName",
                   << PatternMap(Rep("z", 4), "long"),
                      PatternMap(Rep("z", 1), "short") >>,
                   kLongShort) >>

MapFind_LastInserted(pairs, value) ==
    pairs[CHOOSE i \in 1..Len(pairs) :
             /\ pairs[i].value = value
             /\ \A j \in (i + 1)..Len(pairs) : pairs[j].value # value].pattern

\* PatternData::map.find(value)->second: the constructor inserts the pairs in
\* order and std::map::insert keeps the first pattern inserted for a value.
MapFind(pairs, value) ==
    pairs[CHOOSE i \in 1..Len(pairs) :
             /\ pairs[i].value = value
             /\ \A j \in 1..(i - 1) : pairs[j].value # value].pattern

\* CreateData and CreateCommonData: the items with the hour item replaced.
CreateData(digit2, numeric) ==
    [i \in 1..Len(GetPatternItems) |->
        IF GetPatternItems[i].property = "hour"
        THEN PatternItem("hour",
                         << PatternMap(digit2, "2-digit"),
                            PatternMap(numeric, "numeric") >>,
                         {"2-digit", "numeric"})
        ELSE GetPatternItems[i]]

GetPatternData(hour_cycle) ==
    CASE hour_cycle = "kH11" -> CreateData(Rep("K", 2), Rep("K", 1))
      [] hour_cycle = "kH12" -> CreateData(Rep("h", 2), Rep("h", 1))
      [] hour_cycle = "kH23" -> CreateData(Rep("H", 2), Rep("H", 1))
      [] hour_cycle = "kH24" -> CreateData(Rep("k", 2), Rep("k", 1))
      [] hour_cycle = "kUndefined" -> CreateData(Rep("j", 2), Rep("j", 1))

-----------------------------------------------------------------------------
(* Option reading (Intl::GetStringOption, Intl::GetBoolOption,             *)
(* Intl::GetHourCycle, Intl::ToHourCycle).                                 *)

\* [status, value]: "absent" for undefined, "RangeError" for a value outside
\* a non-empty set of allowed values, else "found".
GetStringOption(h, options, property, allowed_values) ==
    LET v == GetProperty(h, options, property)
    IN  IF IsUndefined(v) THEN [status |-> "absent", value |-> ""]
        ELSE IF allowed_values # {} /\ v.val \notin allowed_values
        THEN [status |-> "RangeError", value |-> v.val]
        ELSE [status |-> "found", value |-> v.val]

\* [found, value]
GetBoolOption(h, options, property) ==
    LET v == GetProperty(h, options, property)
    IN  IF IsUndefined(v) THEN [found |-> FALSE, value |-> FALSE]
        ELSE [found |-> TRUE, value |-> v.val]

ToHourCycle(str) ==
    CASE str = "h11" -> "kH11"
      [] str = "h12" -> "kH12"
      [] str = "h23" -> "kH23"
      [] str = "h24" -> "kH24"
      [] OTHER -> "kUndefined"

\* [status, value]: value is kUndefined when the option is absent
GetHourCycle(h, options) ==
    LET got == GetStringOption(h, options, "hourCycle",
                               {"h11", "h12", "h23", "h24"})
    IN  [status |-> got.status,
         value  |-> IF got.status = "found" THEN ToHourCycle(got.value)
                    ELSE "kUndefined"]

-----------------------------------------------------------------------------
(* The format engine (ICU) as Initialize uses it.  engine is               *)
(* [hourChar, literal, rejects]: the hour symbol the locale's patterns use *)
(* for the skeleton symbol j, a quoted literal character the locale's      *)
(* patterns carry ("" for none), and the locales a SimpleDateFormat cannot *)
(* be built for ("none", "extended": those with a keyword, or "all").      *)

NoKeywords == [hc |-> "", ca |-> ""]

\* icu::Locale(icu_locale.getBaseName())
BaseNameLocale(icu_locale) == [icu_locale EXCEPT !.keywords = NoKeywords]

\* icu_locale.setKeywordValue(uloc_toLegacyKey("hc"), nullptr, status)
RemoveHcKeyword(icu_locale) == [icu_locale EXCEPT !.keywords.hc = ""]

\* DateTimePatternGenerator::getBestPattern
GetBestPattern(engine, skel) ==
    [i \in 1..Len(skel) |-> IF skel[i] = "j" THEN engine.hourChar ELSE skel[i]]
    \o (IF engine.literal = "" THEN <<>> ELSE <<"'", engine.literal, "'">>)

\* the UErrorCode of the SimpleDateFormat constructor
ConstructorFails(engine, icu_locale) ==
    \/ engine.rejects = "all"
    \/ engine.rejects = "extended" /\ icu_locale.keywords # NoKeywords

NullFormat == [null |-> TRUE]

\* CreateICUDateFormat: the pattern is generated for the base name of the
\* locale; the result is the SimpleDateFormat, or NullFormat.
CreateICUDateFormat(engine, icu_locale, skel) ==
    IF ConstructorFails(engine, icu_locale) THEN NullFormat
    ELSE [null     |-> FALSE,
          pattern  |-> GetBestPattern(engine, skel),
          locale   |-> icu_locale,
          calendar |-> NullFormat]

\* the id of icu::TimeZone::createDefault, the zone of the host
DefaultTimeZoneID ==
    Str(<<"A","m","e","r","i","c","a","/","N","e","w","_","Y","o","r","k">>)

\* the zones of the engine's data: TimeZone::createTimeZone gives any other
\* id the zone "Etc/Unknown"
IcuTimeZones ==
    { Str(<<"U","T","C">>),
      Str(<<"E","t","c","/","G","M","T","0">>),
      Str(<<"E","t","c","/","G","M","T","+","5">>),
      Str(<<"E","t","c","/","G","M","T","-","1","4">>) }

CreateTimeZone_NoValidityCheck(timezone) ==
    IF timezone.status = "absent"
    THEN [null |-> FALSE, id |-> DefaultTimeZoneID]
    ELSE LET canonicalized == CanonicalizeTimeZoneID(timezone.value)
         IN  IF canonicalized = EmptyString THEN NullFormat
             ELSE [null |-> FALSE, id |-> canonicalized]

\* CreateTimeZone: the default zone for no timeZone option, else the zone of
\* the canonicalized id, or NullFormat.
CreateTimeZone(timezone) ==
    IF timezone.status = "absent"
    THEN [null |-> FALSE, id |-> DefaultTimeZoneID]
    ELSE LET canonicalized == CanonicalizeTimeZoneID(timezone.value)
         IN  IF canonicalized = EmptyString THEN NullFormat
             ELSE IF canonicalized \notin IcuTimeZones THEN NullFormat
             ELSE [null |-> FALSE, id |-> canonicalized]

\* CreateCalendar: the calendar of the locale in that zone, or NullFormat.
CreateCalendar(icu_locale, timezone) ==
    LET tz == CreateTimeZone(timezone)
    IN  IF tz.null THEN NullFormat
        ELSE [null |-> FALSE, locale |-> icu_locale, time_zone |-> tz.id]

Contains(pattern, ch) == \E i \in 1..Len(pattern) : pattern[i] = ch

HourCycleDefault_LowerFirst(pattern) ==
    IF Contains(pattern, "h") THEN "kH12"
    ELSE IF Contains(pattern, "k") THEN "kH24"
    ELSE IF Contains(pattern, "K") THEN "kH11"
    ELSE IF Contains(pattern, "H") THEN "kH23"
    ELSE "kUndefined"

HourCycleDefault(pattern) ==
    IF Contains(pattern, "K") THEN "kH11"
    ELSE IF Contains(pattern, "h") THEN "kH12"
    ELSE IF Contains(pattern, "H") THEN "kH23"
    ELSE IF Contains(pattern, "k") THEN "kH24"
    ELSE "kUndefined"

-----------------------------------------------------------------------------
(* Initialize.                                                             *)

HourCycleOption_KeptWithHour12(found_hour12, option_hour_cycle) ==
    option_hour_cycle

\* Step 8: an hour12 option sets the hourCycle option aside.
HourCycleOption(found_hour12, option_hour_cycle) ==
    IF found_hour12 THEN "kUndefined" ELSE option_hour_cycle

\* The "hc" extension of the resolved locale, for no hour12 and no hourCycle.
HourCycleFromLocale(found_hour12, hour_cycle, extensions) ==
    IF ~found_hour12 /\ hour_cycle = "kUndefined" /\ extensions.hc # ""
    THEN ToHourCycle(extensions.hc)
    ELSE hour_cycle

\* Step 29.d before the skeleton: hour12 gives h12 or h23.
HourCycleFromHour12(get_hour12, hour_cycle) ==
    IF hour_cycle = "kUndefined" /\ get_hour12.found
    THEN IF get_hour12.value THEN "kH12" ELSE "kH23"
    ELSE hour_cycle

\* Step 22, the loop over the items of GetPatternData from the i-th on; acc is
\* [status, skeleton, has_hour_option].
RECURSIVE SkeletonLoop(_, _, _, _, _)
SkeletonLoop(h, options, data, i, acc) ==
    IF i > Len(data) THEN acc
    ELSE LET item == data[i]
             got  == GetStringOption(h, options, item.property,
                                     item.allowed_values)
         IN  IF got.status = "RangeError"
             THEN [acc EXCEPT !.status = "RangeError"]
             ELSE IF got.status = "found"
             THEN SkeletonLoop(h, options, data, i + 1,
                      [acc EXCEPT
                          !.has_hour_option = @ \/ item.property = "hour",
                          !.skeleton = @ \o MapFind(item.pairs, got.value)])
             ELSE SkeletonLoop(h, options, data, i + 1, acc)

BuildSkeleton(h, options, hour_cycle) ==
    SkeletonLoop(h, options, GetPatternData(hour_cycle), 1,
                 [status |-> "ok", skeleton |-> <<>>,
                  has_hour_option |-> FALSE])

StoredHourCycle_WithoutHourOption(has_hour_option, hour_cycle, pattern) ==
    IF hour_cycle = "kUndefined" THEN HourCycleDefault(pattern)
    ELSE hour_cycle

\* Steps 29 and 30 after the formatter is built: the hour cycle stored.
StoredHourCycle(has_hour_option, hour_cycle, pattern) ==
    IF has_hour_option
    THEN IF hour_cycle = "kUndefined" THEN HourCycleDefault(pattern)
         ELSE hour_cycle
    ELSE "kUndefined"

ReconcileLocale_KeepsHc(icu_locale, supplied, extensions, stored) ==
    icu_locale

\* The "hc" keyword is removed from the locale when hour12 or hourCycle was
\* supplied and the extension is not the hour cycle stored.
ReconcileLocale(icu_locale, supplied, extensions, stored) ==
    IF supplied /\ extensions.hc # "" /\ stored # ToHourCycle(extensions.hc)
    THEN RemoveHcKeyword(icu_locale)
    ELSE icu_locale

\* What Initialize returns in the model: the status ("ok", "RangeError" for
\* the RangeError of an option value, "InvalidTimeZone" for the RangeError
\* kInvalidTimeZone, "Fatal" for FATAL), the JSDateTimeFormat, the heap, the
\* object ToDateTimeOptions returned and the skeleton built.
InitializeResult(status, format, wrapped, skel, asked) ==
    [status |-> status, dtf |-> format, heap |-> wrapped.heap,
     options |-> wrapped.object, skeleton |-> skel, requests |-> asked]

\* Steps 6 and 7: [get_hour12, maybe_hour_cycle].
ReadHourOptions(h, options) ==
    [get_hour12       |-> GetBoolOption(h, options, "hour12"),
     maybe_hour_cycle |-> GetHourCycle(h, options)]

\* hour_cycle as the skeleton loop finds it.
LocalHourCycle(read, extensions) ==
    HourCycleFromHour12(
        read.get_hour12,
        HourCycleFromLocale(
            read.get_hour12.found,
            HourCycleOption(read.get_hour12.found,
                            read.maybe_hour_cycle.value),
            extensions))

BuildFormatter_RetriesSameLocale(engine, icu_locale, skel) ==
    LET first == CreateICUDateFormat(engine, icu_locale, skel)
    IN  IF first.null
        THEN [icu_locale  |-> icu_locale,
              date_format |-> CreateICUDateFormat(engine, icu_locale, skel),
              requests    |-> <<icu_locale, icu_locale>>]
        ELSE [icu_locale |-> icu_locale, date_format |-> first,
              requests |-> <<icu_locale>>]

\* The formatter for the locale, or after a failure for its base name:
\* [icu_locale, date_format, requests], requests the locales
\* CreateICUDateFormat was called with.
BuildFormatter(engine, icu_locale, skel) ==
    LET first == CreateICUDateFormat(engine, icu_locale, skel)
    IN  IF first.null
        THEN [icu_locale  |-> BaseNameLocale(icu_locale),
              date_format |-> CreateICUDateFormat(
                                  engine, BaseNameLocale(icu_locale), skel),
              requests    |-> <<icu_locale, BaseNameLocale(icu_locale)>>]
        ELSE [icu_locale |-> icu_locale, date_format |-> first,
              requests |-> <<icu_locale>>]

\* From the hour cycle stored on: the locale reconciled, the fields set.
InitializeStore(wrapped, resolved, read, calendar, built, formatter, stored) ==
    InitializeResult(
        "ok",
        [hour_cycle |-> stored,
         icu_locale |->
             ReconcileLocale(
                 formatter.icu_locale,
                 read.get_hour12.found
                     \/ read.maybe_hour_cycle.value # "kUndefined",
                 resolved.extensions, stored),
         icu_simple_date_format |->
             [formatter.date_format EXCEPT !.calendar = calendar]],
        wrapped, built.skeleton, formatter.requests)

\* From the formatter on: FATAL without one, else the hour cycle.
InitializeFormatted(wrapped, flagged, resolved, read, hour_cycle, calendar, built, formatter) ==
    IF formatter.date_format.null
    THEN InitializeResult("Fatal", flagged, wrapped, built.skeleton,
                          formatter.requests)
    ELSE InitializeStore(wrapped, resolved, read, calendar, built, formatter,
                         StoredHourCycle(built.has_hour_option, hour_cycle,
                                         formatter.date_format.pattern))

\* From the skeleton on.
InitializeSkeleton(wrapped, flagged, resolved, engine, read, hour_cycle, calendar, built) ==
    IF built.status = "RangeError"
    THEN InitializeResult("RangeError", flagged, wrapped, <<>>, <<>>)
    ELSE InitializeFormatted(wrapped, flagged, resolved, read, hour_cycle,
                             calendar, built,
                             BuildFormatter(engine, resolved.icu_locale,
                                            built.skeleton))

\* From the calendar on.
InitializeCalendar(wrapped, flagged, resolved, engine, read, hour_cycle, calendar) ==
    IF calendar.null
    THEN InitializeResult("InvalidTimeZone", flagged, wrapped, <<>>, <<>>)
    ELSE InitializeSkeleton(wrapped, flagged, resolved, engine, read,
                            hour_cycle, calendar,
                            BuildSkeleton(wrapped.heap, wrapped.object,
                                          hour_cycle))

\* From the options read on.
InitializeOptions(wrapped, flagged, resolved, engine, read) ==
    IF read.maybe_hour_cycle.status = "RangeError"
    THEN InitializeResult("RangeError", flagged, wrapped, <<>>, <<>>)
    ELSE InitializeCalendar(
             wrapped, flagged, resolved, engine, read,
             LocalHourCycle(read, resolved.extensions),
             CreateCalendar(resolved.icu_locale,
                            GetStringOption(wrapped.heap, wrapped.object,
                                            "timeZone", {})))

\* From the options object of ToDateTimeOptions on.
InitializeWrapped(wrapped, flagged, resolved, engine) ==
    InitializeOptions(wrapped, flagged, resolved, engine,
                      ReadHourOptions(wrapped.heap, wrapped.object))

Initialize_WithoutDefaults(h, date_time_format, input_options, resolved, engine) ==
    InitializeWrapped(WrapOptions(h, input_options),
                      [date_time_format EXCEPT !.hour_cycle = "kUndefined"],
                      resolved, engine)

\* JSDateTimeFormat::Initialize with resolved the result of ResolveLocale:
\* set_flags(0), ToDateTimeOptions(options, "any", "date"), and the rest.
Initialize(h, date_time_format, input_options, resolved, engine) ==
    InitializeWrapped(ToDateTimeOptions(h, input_options, "any", "date"),
                      [date_time_format EXCEPT !.hour_cycle = "kUndefined"],
                      resolved, engine)

-----------------------------------------------------------------------------
(* Formatting a time value.  A Number is NaN, an infinity or a finite      *)
(* value; finite time values are whole days (864 * 10^5 ms), so the limit  *)
(* of TimeClip, 864 * 10^13 ms, is 10^8 days.                              *)

NumberValue(kind, days) == [type |-> "number", kind |-> kind, days |-> days]
NaN == NumberValue("NaN", 0)
Finite(days) == NumberValue("finite", days)

\* DateCache::kMaxTimeInMs, in days
kMaxTimeInDays == 100000000

\* DateCache::TimeClip: NaN for a value that is not finite or beyond the
\* limit, else the value
TimeClip(x) ==
    IF x.kind = "finite" /\ -kMaxTimeInDays <= x.days /\ x.days <= kMaxTimeInDays
    THEN x
    ELSE NaN

\* std::isnan
IsNaN(x) == x.kind = "NaN"

\* icu::SimpleDateFormat::format: the text of a date in the format's pattern
EngineFormat(date_format, date_value) ==
    [pattern |-> date_format.pattern, date |-> date_value.days]

\* what a call returns, or the exception it throws
Returned(value) == [status |-> "ok", value |-> value]
Thrown(error, message) == [status |-> error, message |-> message]

FormatDateTime_NoTimeClip(date_format, x) ==
    IF IsNaN(x)
    THEN Thrown("RangeError", "kInvalidTimeValue")
    ELSE Returned(EngineFormat(date_format, x))

\* FormatDateTime( dateTimeFormat, x )
FormatDateTime(date_format, x) ==
    LET date_value == TimeClip(x)
    IN  IF IsNaN(date_value)
        THEN Thrown("RangeError", "kInvalidTimeValue")
        ELSE Returned(EngineFormat(date_format, date_value))

\* JSDateTimeFormat::DateTimeFormat; now is JSDate::CurrentTimeValue, and
\* ToNumber of a Number is the Number
DateTimeFormat(date_time_format, date_arg, now) ==
    LET x == IF IsUndefined(date_arg) THEN now ELSE date_arg
    IN  FormatDateTime(date_time_format.icu_simple_date_format, x)

DateTimeFormatPrototypeFormatToParts_NoCheck(date_time_format, date_arg, now, engine_formatted, positions) ==
    Returned(FormatToParts(engine_formatted, positions))

\* The formatToParts entry point, which hands JSDateTimeFormat::FormatToParts
\* the clipped time value; engine_formatted and positions are what the
\* engine formats that value to.
DateTimeFormatPrototypeFormatToParts(date_time_format, date_arg, now, engine_formatted, positions) ==
    LET x == IF IsUndefined(date_arg) THEN now ELSE date_arg
        date_value == TimeClip(x)
    IN  IF IsNaN(date_value)
        THEN Thrown("RangeError", "kInvalidTimeValue")
        ELSE Returned(FormatToParts(engine_formatted, positions))

-----------------------------------------------------------------------------
(* The values the variables of an operation hold while another is checked. *)

TzIdle    == tzInput = EmptyString /\ tzResult = EmptyString
PartsIdle == formatted = <<>> /\ spans = <<>> /\ parts = <<>>
OptIdle   == /\ heap = <<>>
             /\ callerOptions = Undefined
             /\ required = "any"
             /\ defaults = "date"
             /\ optResult = Undefined
\* a JSDateTimeFormat as JSObject::New leaves it
NewDateTimeFormat ==
    [hour_cycle |-> "kUndefined", icu_locale |-> NullFormat,
     icu_simple_date_format |-> NullFormat]

Locale(base, keywords) == [base |-> base, keywords |-> keywords]

\* Intl::ResolveLocale: the locale and the extensions it carries
ResolvedLocale(base, keywords) ==
    [icu_locale |-> Locale(base, keywords), extensions |-> keywords]

InitIdle  == /\ r = ResolvedLocale("en", NoKeywords)
             /\ icu = [hourChar |-> "h", literal |-> "", rejects |-> "none"]
             /\ dtf = NewDateTimeFormat
             /\ initStatus = "none"
             /\ requests = <<>>
             /\ skeleton = <<>>
FormatIdle == date = Undefined /\ callResult = Undefined
CacheIdle  == cache = <<>> /\ calls = <<>>
CallIdle   == FormatIdle /\ CacheIdle

-----------------------------------------------------------------------------
(* ToLocaleDateTime and the isolate's cache of formatters.  A formatter in *)
(* the cache or in a call is [object, owner]: the SimpleDateFormat and the *)
(* call that built it.  The function is modelled in the three parts that   *)
(* lie between its accesses to the cache.                                  *)

ConvertToCacheType_TimeAsDate(type) ==
    CASE type = "date" -> "kDefaultSimpleDateFormatForDate"
      [] type = "time" -> "kDefaultSimpleDateFormatForDate"
      [] type = "all"  -> "kDefaultSimpleDateFormat"

ConvertToCacheType(type) ==
    CASE type = "date" -> "kDefaultSimpleDateFormatForDate"
      [] type = "time" -> "kDefaultSimpleDateFormatForTime"
      [] type = "all"  -> "kDefaultSimpleDateFormat"

ICUObjectCacheTypes ==
    { "kDefaultSimpleDateFormatForDate", "kDefaultSimpleDateFormatForTime",
      "kDefaultSimpleDateFormat" }

\* Isolate::get_cached_icu_object: the object of the slot, or nullptr
get_cached_icu_object(cached, cache_type) == cached[cache_type]

\* Isolate::set_icu_object_in_cache
set_icu_object_in_cache(cached, cache_type, obj) ==
    [cached EXCEPT ![cache_type] = obj]

\* Intl::ResolveLocale for the locales argument: the default locale for
\* undefined, else the locale named
ResolveLocale(locales, default_locale) ==
    IF IsUndefined(locales) THEN default_locale
    ELSE ResolvedLocale(locales.val, NoKeywords)

CanCache_LocalesOnly(locales, options) == IsUndefined(locales)

\* can_cache
CanCache(locales, options) == IsUndefined(locales) /\ IsUndefined(options)

\* A call at its start: the arguments, where it stands, the formatter it
\* holds, whether it came from the cache, and what the call returned.
NewCall(date_arg, locales, options, req, def) ==
    [date |-> date_arg, locales |-> locales, options |-> options,
     required |-> req, defaults |-> def,
     pc |-> "start", format |-> NullFormat, from_cache |-> FALSE,
     result |-> Undefined]

ToLocaleDateTimeCheck_IgnoresCache(call, cached) ==
    IF IsUndefined(call.date)
    THEN [call EXCEPT !.pc = "done",
                      !.result = Thrown("TypeError",
                                        "kMethodInvokedOnWrongType")]
    ELSE IF IsNaN(call.date)
    THEN [call EXCEPT !.pc = "done", !.result = Returned("Invalid Date")]
    ELSE [call EXCEPT !.pc = "construct"]

\* ToLocaleDateTime up to the check of the cache: the call, returned or on
\* its way to construct a formatter.  A date that is no JSDate is undefined
\* here.
ToLocaleDateTimeCheck(call, cached) ==
    IF IsUndefined(call.date)
    THEN [call EXCEPT !.pc = "done",
                      !.result = Thrown("TypeError",
                                        "kMethodInvokedOnWrongType")]
    ELSE IF IsNaN(call.date)
    THEN [call EXCEPT !.pc = "done", !.result = Returned("Invalid Date")]
    ELSE LET cached_icu_simple_date_format ==
                 get_cached_icu_object(cached,
                                       ConvertToCacheType(call.defaults))
         IN  IF CanCache(call.locales, call.options)
                /\ ~cached_icu_simple_date_format.null
             THEN [call EXCEPT
                     !.pc = "done",
                     !.format = cached_icu_simple_date_format,
                     !.from_cache = TRUE,
                     !.result = FormatDateTime(
                                    cached_icu_simple_date_format.object,
                                    call.date)]
             ELSE [call EXCEPT !.pc = "construct"]

\* Steps 3 and 4: ToDateTimeOptions and Initialize on a new object, for the
\* call with index owner.
ToLocaleDateTimeConstruct(call, owner, h, default_locale, engine) ==
    LET internal_options ==
            ToDateTimeOptions(h, call.options, call.required, call.defaults)
        ret == Initialize(internal_options.heap, NewDateTimeFormat,
                          internal_options.object,
                          ResolveLocale(call.locales, default_locale), engine)
    IN  IF ret.status = "ok"
        THEN [call EXCEPT
                !.pc = "store",
                !.format = [null |-> FALSE,
                            object |-> ret.dtf.icu_simple_date_format,
                            owner |-> owner]]
        ELSE [call EXCEPT !.pc = "done",
                          !.result = Thrown(ret.status, "")]

\* The cache after the call with a formatter constructed has stored it.
ToLocaleDateTimeStore(call, cached) ==
    IF CanCache(call.locales, call.options)
    THEN set_icu_object_in_cache(cached, ConvertToCacheType(call.defaults),
                                 call.format)
    ELSE cached

\* Step 5: the call returns the date in its formatter.
ToLocaleDateTimeReturn(call) ==
    [call EXCEPT !.pc = "done",
                 !.result = FormatDateTime(call.format.object, call.date)]

-----------------------------------------------------------------------------
(* ResolvedOptions.  The engine is asked for the type of the calendar, the *)
(* canonical id of its time zone and the numbering system of the locale;   *)
(* engine.numbering_system and engine.canonical_id_ok are its answers.     *)

\* Intl::ToLanguageTag: the tag of a locale, here its parts in order
ToLanguageTag(icu_locale) ==
    <<icu_locale.base>>
    \o (IF icu_locale.keywords = NoKeywords THEN <<>> ELSE <<"u">>)
    \o (IF icu_locale.keywords.ca = "" THEN <<>>
        ELSE <<"ca", icu_locale.keywords.ca>>)
    \o (IF icu_locale.keywords.hc = "" THEN <<>>
        ELSE <<"hc", icu_locale.keywords.hc>>)

\* icu::Calendar::getType: the legacy name of the calendar of the locale
CalendarGetType(calendar) ==
    CASE calendar.locale.keywords.ca \in {"", "gregory"} -> "gregorian"
      [] calendar.locale.keywords.ca = "ethioaa" -> "ethiopic-amete-alem"
      [] OTHER -> calendar.locale.keywords.ca

\* icu::TimeZone::getID
TimeZoneGetID(calendar) == calendar.time_zone

\* icu::TimeZone::getCanonicalID: UTC is Etc/UTC and Etc/GMT0 is Etc/GMT
GetCanonicalID(time_zone) ==
    IF time_zone = Str(<<"U","T","C">>)
    THEN Str(<<"E","t","c","/","U","T","C">>)
    ELSE IF time_zone = Str(<<"E","t","c","/","G","M","T","0">>)
    THEN Str(<<"E","t","c","/","G","M","T">>)
    ELSE time_zone

\* The calendar name as reported.
ResolvedCalendar(calendar_str) ==
    IF calendar_str = "gregorian" THEN "gregory"
    ELSE IF calendar_str = "ethiopic-amete-alem" THEN "ethioaa"
    ELSE calendar_str

\* timezone_value
ResolvedTimeZone(engine, time_zone) ==
    LET canonical_time_zone == GetCanonicalID(time_zone)
    IN  IF engine.canonical_id_ok
        THEN IF canonical_time_zone = Str(<<"E","t","c","/","U","T","C">>)
                \/ canonical_time_zone = Str(<<"E","t","c","/","G","M","T">>)
             THEN StringValue(Str(<<"U","T","C">>))
             ELSE StringValue(canonical_time_zone)
        ELSE Undefined

HourCycleAsString(hc) ==
    CASE hc = "kUndefined" -> "undefined"
      [] hc = "kH11" -> "h11"
      [] hc = "kH12" -> "h12"
      [] hc = "kH23" -> "h23"
      [] hc = "kH24" -> "h24"

ResolvedHourCycle_Hour12First(h, options, hc) ==
    IF hc # "kUndefined"
    THEN CreateDataProperty(
             CreateDataProperty(h, options, "hour12",
                                BooleanValue(hc \in {"kH11", "kH12"})),
             options, "hourCycle", StringValue(HourCycleAsString(hc)))
    ELSE h

\* Step 5.b: hourCycle and hour12, for an hour cycle that is not undefined.
ResolvedHourCycle(h, options, hc) ==
    IF hc # "kUndefined"
    THEN CreateDataProperty(
             CreateDataProperty(h, options, "hourCycle",
                                StringValue(HourCycleAsString(hc))),
             options, "hour12", BooleanValue(hc \in {"kH11", "kH12"}))
    ELSE h

\* pattern.find(token) != std::string::npos
Find(pattern, token) ==
    \E i \in 1..(Len(pattern) - Len(token) + 1) :
        SubSeq(pattern, i, i + Len(token) - 1) = token

RECURSIVE FirstMatch_LastPairWins(_, _, _)
FirstMatch_LastPairWins(pairs, pattern, k) ==
    IF k > Len(pairs) THEN 0
    ELSE LET later == FirstMatch_LastPairWins(pairs, pattern, k + 1)
         IN  IF later # 0 THEN later
             ELSE IF Find(pattern, pairs[k].pattern) THEN k
             ELSE 0

\* The loop over item.pairs from the k-th pair on, left at the first pair
\* whose pattern occurs: the index of that pair, 0 when the loop ends.
RECURSIVE FirstMatch(_, _, _)
FirstMatch(pairs, pattern, k) ==
    IF k > Len(pairs) THEN 0
    ELSE IF Find(pattern, pairs[k].pattern) THEN k
    ELSE FirstMatch(pairs, pattern, k + 1)

\* The loop over GetPatternItems from the i-th item on: a property for the
\* first pair of the item whose pattern occurs in the formatter's pattern.
RECURSIVE ResolvedFields(_, _, _, _)
ResolvedFields(h, options, pattern, i) ==
    IF i > Len(GetPatternItems) THEN h
    ELSE LET item  == GetPatternItems[i]
             first == FirstMatch(item.pairs, pattern, 1)
         IN  IF first = 0 THEN ResolvedFields(h, options, pattern, i + 1)
             ELSE ResolvedFields(
                      CreateDataProperty(h, options, item.property,
                                         StringValue(item.pairs[first].value)),
                      options, pattern, i + 1)

\* locale, calendar, numberingSystem and timeZone on the new object
ResolvedHead(created, date_time_format, engine) ==
    LET options  == created.object
        calendar == date_time_format.icu_simple_date_format.calendar
        h1 == CreateDataProperty(
                  created.heap, options, "locale",
                  StringValue(ToLanguageTag(date_time_format.icu_locale)))
        h2 == CreateDataProperty(
                  h1, options, "calendar",
                  StringValue(ResolvedCalendar(CalendarGetType(calendar))))
        h3 == IF engine.numbering_system # ""
              THEN CreateDataProperty(h2, options, "numberingSystem",
                                      StringValue(engine.numbering_system))
              ELSE h2
    IN  CreateDataProperty(h3, options, "timeZone",
                           ResolvedTimeZone(engine, TimeZoneGetID(calendar)))

\* JSDateTimeFormat::ResolvedOptions: [heap, object]
ResolvedOptions(h, object_prototype, date_time_format, engine) ==
    LET created == NewObject(h, object_prototype)
    IN  [heap |-> ResolvedFields(
                      ResolvedHourCycle(
                          ResolvedHead(created, date_time_format, engine),
                          created.object, date_time_format.hour_cycle),
                      created.object,
                      date_time_format.icu_simple_date_format.pattern, 1),
         object |-> created.object]

-----------------------------------------------------------------------------
(* Time zone identifiers: a spelling, in any letter case, of one of the    *)
(* UTC aliases or of the Etc/GMT prefix, followed by up to MaxTail typed   *)
(* characters.                                                             *)

TzBases == { Str(<<"u","t","c">>), Str(<<"g","m","t">>),
             Str(<<"e","t","c","/","u","t","c">>),
             Str(<<"e","t","c","/","g","m","t">>) }

\* base with the letters at the positions of mask in upper case
WithCase(base, mask) ==
    [i \in 1..Len(base) |->
        IF i \in mask THEN LocaleIndependentAsciiToUpper(base[i]) ELSE base[i]]

LetterPositions(base) == {i \in 1..Len(base) : IsAsciiAlpha(base[i])}

TzPrefixes ==
    UNION { { WithCase(base, mask) : mask \in SUBSET LetterPositions(base) }
            : base \in TzBases }

TzTailChars == { Ord(c) : c \in {"0", "1", "4", "5", "+", "-"} }

TzInit ==
    /\ pc = "ready"
    /\ tzInput \in TzPrefixes
    /\ tzResult = EmptyString
    /\ PartsIdle /\ OptIdle /\ InitIdle
    /\ CallIdle

\* The caller spells one more character of the identifier.
TypeChar(ch) ==
    /\ pc = "ready"
    /\ \E base \in TzBases :
          /\ Len(tzInput) < Len(base) + MaxTail
          /\ Len(tzInput) >= Len(base)
          /\ [i \in 1..Len(base) |->
                 LocaleIndependentAsciiToLower(tzInput[i])] = base
    /\ tzInput' = Append(tzInput, ch)
    /\ UNCHANGED <<pc, tzResult, partsVars, optVars, initVars, callVars>>

CanonicalizeTimeZoneIDCall ==
    /\ pc = "ready"
    /\ tzResult' = CanonicalizeTimeZoneID(tzInput)
    /\ pc' = "done"
    /\ UNCHANGED <<tzInput, partsVars, optVars, initVars, callVars>>

TzNext ==
    \/ \E ch \in TzTailChars : TypeChar(ch)
    \/ CanonicalizeTimeZoneIDCall

SpecTz == TzInit /\ [][TzNext]_vars

-----------------------------------------------------------------------------
(* Claims about the time zone canonicalizer, checked under SpecTz.         *)

\* s and t are equal up to the case of ASCII letters
EqualsIgnoringAsciiCase(s, t) ==
    /\ Len(s) = Len(t)
    /\ \A i \in 1..Len(s) :
          \/ s[i] = t[i]
          \/ /\ IsAsciiAlpha(s[i]) /\ IsAsciiAlpha(t[i])
             /\ (s[i] - t[i] = 32 \/ t[i] - s[i] = 32)

SpelledUtcAlias(s) ==
    \E a \in { Str(<<"U","T","C">>), Str(<<"G","M","T">>),
               Str(<<"E","t","c","/","U","T","C">>),
               Str(<<"E","t","c","/","G","M","T">>) } :
        EqualsIgnoringAsciiCase(s, a)

SpelledEtcGmtPrefix(s) ==
    /\ Len(s) >= 7
    /\ EqualsIgnoringAsciiCase(SubSeq(s, 1, 7),
                               Str(<<"E","t","c","/","G","M","T">>))

\* C9: every input that equals "UTC", "GMT", "Etc/UTC" or "Etc/GMT" up to
\* ASCII letter case canonicalizes to "UTC"; the alias rule comes before the
\* Etc/GMT offset grammar, so "Etc/GMT" in any case is "UTC", not "".
C9_UtcAliases ==
    (pc = "done" /\ SpelledUtcAlias(tzInput))
        => tzResult = Str(<<"U","T","C">>)

C9_Witness ==
    /\ pc = "done"
    /\ tzInput = Str(<<"e","T","c","/","g","M","t">>)
    /\ tzResult = Str(<<"U","T","C">>)

IsSign(ch)  == ch = Ord("+") \/ ch = Ord("-")
IsDigitUpTo(ch, top) == Ord("0") <= ch /\ ch <= Ord(top)

\* The result the offset grammar of the claim gives an Etc/GMT-prefixed input.
GmtGrammarResult(s) ==
    LET suffix == SubSeq(s, 8, Len(s))
        etcGmt == Str(<<"E","t","c","/","G","M","T">>)
    IN  IF Len(s) = 8 /\ suffix[1] = Ord("0")
        THEN etcGmt \o Str(<<"0">>)
        ELSE IF Len(s) = 9 /\ IsSign(suffix[1]) /\ IsDigitUpTo(suffix[2], "9")
        THEN etcGmt \o suffix
        ELSE IF Len(s) = 10 /\ IsSign(suffix[1]) /\ suffix[2] = Ord("1")
                /\ IsDigitUpTo(suffix[3], "4")
        THEN etcGmt \o suffix
        ELSE EmptyString

\* C10: an input that starts with "ETC/GMT" in any letter case and is not a
\* UTC alias canonicalizes to "Etc/GMT0" (length 8, ending in 0), to
\* "Etc/GMT" sign digit (length 9), to "Etc/GMT" sign "1" [0-4] (length 10),
\* and to the empty string for every other length or shape; the prefix of
\* the result is spelled "Etc/GMT" whatever the case of the input.
C10_GmtOffsetGrammar ==
    (pc = "done" /\ SpelledEtcGmtPrefix(tzInput) /\ ~SpelledUtcAlias(tzInput))
        => tzResult = GmtGrammarResult(tzInput)

C10_Witness ==
    /\ pc = "done"
    /\ tzInput = Str(<<"e","T","C","/","g","m","t","-","1","4">>)
    /\ tzResult = Str(<<"E","t","c","/","G","M","T","-","1","4">>)

-----------------------------------------------------------------------------
(* Location identifiers: the start of an Area/Location name followed by up *)
(* to MaxLocation typed characters: letters of both cases, separators, a   *)
(* digit and a byte outside ASCII.                                         *)

LocationPrefixes ==
    { EmptyString,
      Str(<<"a","m","e","r","i","c","a","/">>),
      Str(<<"b","u","e","N","o","s","_","a","i","r">>),
      Str(<<"p","o","r","t","-","a","U">>),
      Str(<<"p","o","r","t","-","a","U","-">>) }

\* 233 is the byte of a Latin-1 e with acute accent
LocationChars ==
    { Ord(c) : c \in {"o", "F", "e", "S", "_", "/", "1"} } \cup {233}

LocationInit ==
    /\ pc = "ready"
    /\ tzInput \in LocationPrefixes
    /\ tzResult = EmptyString
    /\ PartsIdle /\ OptIdle /\ InitIdle
    /\ CallIdle

\* The caller spells one more character of the location.
TypeLocationChar(ch) ==
    /\ pc = "ready"
    /\ \E prefix \in LocationPrefixes :
          /\ Len(tzInput) >= Len(prefix)
          /\ Len(tzInput) < Len(prefix) + MaxLocation
          /\ SubSeq(tzInput, 1, Len(prefix)) = prefix
    /\ tzInput' = Append(tzInput, ch)
    /\ UNCHANGED <<pc, tzResult, partsVars, optVars, initVars, callVars>>

LocationNext ==
    \/ \E ch \in LocationChars : TypeLocationChar(ch)
    \/ CanonicalizeTimeZoneIDCall

SpecLocation == LocationInit /\ [][LocationNext]_vars

-----------------------------------------------------------------------------
(* Claims about location names, checked under SpecLocation.                *)

IsSeparator(ch) == ch = Ord("_") \/ ch = Ord("-") \/ ch = Ord("/")

\* the title-case grammar accepts s
LocationAccepted(s) ==
    \A i \in 1..Len(s) : IsAsciiAlpha(s[i]) \/ IsSeparator(s[i])

AsciiLower(ch) == IF 65 <= ch /\ ch <= 90 THEN ch + 32 ELSE ch
AsciiUpper(ch) == IF 97 <= ch /\ ch <= 122 THEN ch - 32 ELSE ch

\* a word of s starts at i: a letter after a separator or at the start
WordStart(s, i) ==
    /\ i \in 1..Len(s)
    /\ IsAsciiAlpha(s[i])
    /\ (i = 1 \/ ~IsAsciiAlpha(s[i - 1]))

\* the position of the last letter of the word of s that starts at i
WordEnd(s, i) ==
    CHOOSE j \in i..Len(s) :
        /\ \A k \in i..j : IsAsciiAlpha(s[k])
        /\ (j = Len(s) \/ ~IsAsciiAlpha(s[j + 1]))

\* the word of s that starts at i is "of", "es" or "au" in some letter case
SpecialWord(s, i) ==
    /\ WordStart(s, i)
    /\ WordEnd(s, i) = i + 1
    /\ <<AsciiLower(s[i]), AsciiLower(s[i + 1])>>
          \in {Str(<<"o","f">>), Str(<<"e","s">>), Str(<<"a","u">>)}

\* C11: an input that is neither a UTC alias nor Etc/GMT-prefixed
\* canonicalizes to the empty string if it holds a character other than an
\* ASCII letter, '_', '-' or '/'; otherwise to a string of the same length
\* with every separator in place, the first letter of each word in upper
\* case (but for the words of, es, au) and every other letter in lower
\* case, by ASCII-only case mapping.
C11_TitleCaseGrammar ==
    (pc = "done" /\ ~SpelledUtcAlias(tzInput) /\ ~SpelledEtcGmtPrefix(tzInput))
    => IF ~LocationAccepted(tzInput) THEN tzResult = EmptyString
       ELSE /\ Len(tzResult) = Len(tzInput)
            /\ \A i \in 1..Len(tzInput) :
                  IF IsSeparator(tzInput[i]) THEN tzResult[i] = tzInput[i]
                  ELSE IF WordStart(tzInput, i)
                  THEN \/ tzResult[i] = AsciiUpper(tzInput[i])
                       \/ /\ SpecialWord(tzInput, i)
                          /\ tzResult[i] = AsciiLower(tzInput[i])
                  ELSE tzResult[i] = AsciiLower(tzInput[i])

\* bueNos_airES -> Buenos_Aires
C11_Witness ==
    /\ pc = "done"
    /\ tzInput = Str(<<"b","u","e","N","o","s","_","a","i","r","e","S">>)
    /\ tzResult = Str(<<"B","u","e","n","o","s","_","A","i","r","e","s">>)

\* the word of s that starts at i is all lower case
WordLowerCased(s, i) ==
    \A k \in i..WordEnd(s, i) : s[k] = AsciiLower(s[k])

\* C12 as stated: in the result for an accepted input, every word that is
\* "of", "es" or "au" in some letter case is all lower case, wherever it
\* stands, and no other word is.
C12_SpecialWordsLowered ==
    (pc = "done" /\ LocationAccepted(tzInput)
       /\ ~SpelledUtcAlias(tzInput) /\ ~SpelledEtcGmtPrefix(tzInput))
    => \A i \in 1..Len(tzInput) :
          WordStart(tzInput, i) =>
              (SpecialWord(tzInput, i) <=> WordLowerCased(tzResult, i))

\* what the code does: the word is lowered when a separator follows it and
\* keeps its capital when it ends the input
C12_LoweredBeforeSeparator ==
    (pc = "done" /\ LocationAccepted(tzInput)
       /\ ~SpelledUtcAlias(tzInput) /\ ~SpelledEtcGmtPrefix(tzInput))
    => \A i \in 1..Len(tzInput) :
          WordStart(tzInput, i) =>
              ((SpecialWord(tzInput, i) /\ i + 1 < Len(tzInput))
                  <=> WordLowerCased(tzResult, i))

\* america/oF -> America/Of: the last word keeps its capital
C12_Witness ==
    /\ pc = "done"
    /\ tzInput = Str(<<"a","m","e","r","i","c","a","/","o","F">>)
    /\ tzResult = Str(<<"A","m","e","r","i","c","a","/","O","f">>)

-----------------------------------------------------------------------------
(* FormatToParts on what the engine formats: a string of up to MaxLen      *)
(* characters and up to MaxSpans field positions, sorted by begin index,   *)
(* not overlapping and inside the string.                                  *)

FormattedChars == {"7", ":"}

FormattedStrings ==
    UNION { [1..n -> FormattedChars] : n \in 0..MaxLen }

EngineFields == {"UDAT_HOUR_OF_DAY0_FIELD", "UDAT_AM_PM_FIELD"}

PartsInit ==
    /\ pc = "ready"
    /\ formatted \in FormattedStrings
    /\ spans = <<>>
    /\ parts = <<>>
    /\ TzIdle /\ OptIdle /\ InitIdle
    /\ CallIdle

\* The engine's FieldPositionIterator holds one more field position.
EngineFieldPosition(b, e, f) ==
    /\ pc = "ready"
    /\ Len(spans) < MaxSpans
    /\ b <= e
    /\ e <= Len(formatted)
    /\ spans # <<>> => spans[Len(spans)].end <= b
    /\ spans' = Append(spans, [begin |-> b, end |-> e, field |-> f])
    /\ UNCHANGED <<pc, formatted, parts, tzVars, optVars, initVars, callVars>>

FormatToPartsCall ==
    /\ pc = "ready"
    /\ parts' = FormatToParts(formatted, spans)
    /\ pc' = "done"
    /\ UNCHANGED <<formatted, spans, tzVars, optVars, initVars, callVars>>

PartsNext ==
    \/ \E b \in 0..MaxLen, e \in 0..MaxLen, f \in EngineFields :
          EngineFieldPosition(b, e, f)
    \/ FormatToPartsCall

SpecParts == PartsInit /\ [][PartsNext]_vars

-----------------------------------------------------------------------------
(* Claims about FormatToParts, checked under SpecParts.                    *)

\* sorted by begin index, non-overlapping and inside [0, length]
SpansWellFormed(fps, length) ==
    /\ \A i \in 1..Len(fps) :
          0 <= fps[i].begin /\ fps[i].begin <= fps[i].end
          /\ fps[i].end <= length
    /\ \A i \in 1..(Len(fps) - 1) : fps[i].end <= fps[i + 1].begin

RECURSIVE ConcatValues(_)
ConcatValues(ps) ==
    IF ps = <<>> THEN <<>> ELSE Head(ps).value \o ConcatValues(Tail(ps))

\* C1: for a formatted string and field positions that are sorted,
\* non-overlapping and inside [0, length], the parts cover [0, length) once
\* and in order: the first part begins at 0, each next part begins where the
\* one before it ends, the last ends at length, each part's text is the
\* substring of its range, and the texts concatenate to the formatted
\* string; an empty formatted string gives an empty list.
C1_PartsTile ==
    (pc = "done" /\ SpansWellFormed(spans, Len(formatted))) =>
        /\ Len(formatted) = 0 => parts = <<>>
        /\ Len(formatted) > 0 =>
              /\ parts # <<>>
              /\ parts[1].begin_pos = 0
              /\ parts[Len(parts)].end_pos = Len(formatted)
        /\ \A i \in 1..Len(parts) :
              /\ parts[i].begin_pos <= parts[i].end_pos
              /\ parts[i].value = SubSeq(formatted, parts[i].begin_pos + 1,
                                         parts[i].end_pos)
        /\ \A i \in 1..(Len(parts) - 1) :
              parts[i].end_pos = parts[i + 1].begin_pos
        /\ ConcatValues(parts) = formatted

\* a literal, a field, a literal: "7:7" with the hour reported at [1, 2)
C1_Witness ==
    /\ pc = "done"
    /\ Len(formatted) = 3
    /\ Len(spans) = 1 /\ spans[1].begin = 1 /\ spans[1].end = 2
    /\ Len(parts) = 3
    /\ parts[1].type = "literal" /\ parts[2].type = "hour"
    /\ parts[3].type = "literal"

-----------------------------------------------------------------------------
(* ToDateTimeOptions on every options object that gives each of the seven  *)
(* date and time fields a value or none, and on undefined, for every       *)
(* required and defaults.                                                  *)

DateTimeFields ==
    <<"weekday", "year", "month", "day", "hour", "minute", "second">>

\* the own properties, in the order of keys, that chosen gives a value
RECURSIVE OwnProperties(_, _, _)
OwnProperties(keys, chosen, i) ==
    IF i > Len(keys) THEN <<>>
    ELSE IF chosen[keys[i]] = "" THEN OwnProperties(keys, chosen, i + 1)
    ELSE <<[key |-> keys[i], value |-> StringValue(chosen[keys[i]])]>>
         \o OwnProperties(keys, chosen, i + 1)

FieldChoices ==
    [{DateTimeFields[i] : i \in 1..Len(DateTimeFields)}
        -> {"", "numeric", "2-digit"}]

OptInit ==
    /\ pc = "ready"
    /\ \/ heap = <<>> /\ callerOptions = Undefined
       \/ /\ \E chosen \in FieldChoices :
                heap = <<[proto |-> Null,
                          own |-> OwnProperties(DateTimeFields, chosen, 1)]>>
          /\ callerOptions = ObjectRef(1)
    /\ required \in {"date", "time", "any"}
    /\ defaults \in {"date", "time", "all"}
    /\ optResult = Undefined
    /\ TzIdle /\ PartsIdle /\ InitIdle
    /\ CallIdle

ToDateTimeOptionsCall ==
    /\ pc = "ready"
    /\ LET ret == ToDateTimeOptions(heap, callerOptions, required, defaults)
       IN  heap' = ret.heap /\ optResult' = ret.object
    /\ pc' = "done"
    /\ UNCHANGED <<callerOptions, required, defaults, tzVars, partsVars,
                   initVars, callVars>>

OptNext == ToDateTimeOptionsCall

SpecOpt == OptInit /\ [][OptNext]_vars

-----------------------------------------------------------------------------
(* Claims about ToDateTimeOptions, checked under SpecOpt.                  *)

\* the value the caller's options give a field (undefined: absent)
CallerValue(field) ==
    IF IsUndefined(callerOptions) THEN Undefined
    ELSE GetProperty(heap, callerOptions, field)

Absent(field) == IsUndefined(CallerValue(field))

RequiredGroup(req) ==
    CASE req = "date" -> {"weekday", "year", "month", "day"}
      [] req = "time" -> {"hour", "minute", "second"}
      [] req = "any"  -> {"weekday", "year", "month", "day",
                          "hour", "minute", "second"}

DefaultsGroup(def) ==
    CASE def = "date" -> {"year", "month", "day"}
      [] def = "time" -> {"hour", "minute", "second"}
      [] def = "all"  -> {"year", "month", "day", "hour", "minute", "second"}

\* C5: defaults are applied exactly when every field of the required groups
\* is absent on the options; then year, month, day are "numeric" for defaults
\* date or all and hour, minute, second are "numeric" for defaults time or
\* all; otherwise nothing is added.
C5_DefaultsApplied ==
    pc = "done" =>
        LET applies == \A f \in RequiredGroup(required) : Absent(f)
            added   == IF applies THEN DefaultsGroup(defaults) ELSE {}
        IN  /\ OwnKeys(heap, optResult) = added
            /\ \A f \in added :
                  LET v == GetProperty(heap, optResult, f)
                  IN  v.type = "string" /\ v.val = "numeric"

\* resolveDefaults(undefined, any, date): year, month, day and no time field
C5_Witness ==
    /\ pc = "done"
    /\ IsUndefined(callerOptions)
    /\ required = "any" /\ defaults = "date"
    /\ OwnKeys(heap, optResult) = {"year", "month", "day"}
    /\ \A f \in {"hour", "minute", "second"} :
          IsUndefined(GetProperty(heap, optResult, f))

\* C6: the call leaves the caller's options object as it was, own properties
\* and values, and returns a new object whose prototype is the caller's
\* object, or null when the options are undefined.
C6_CallerObjectUntouched ==
    [][pc' = "done" =>
          /\ Len(heap') = Len(heap) + 1
          /\ \A id \in 1..Len(heap) : heap'[id] = heap[id]
          /\ optResult'.type = "object"
          /\ optResult'.id = Len(heap) + 1
          /\ heap'[optResult'.id].proto =
                IF IsUndefined(callerOptions) THEN Null ELSE callerOptions]_vars

\* defaults written beside a caller's object that holds only "hour"
C6_Witness ==
    /\ pc = "done"
    /\ required = "date" /\ defaults = "date"
    /\ callerOptions.type = "object"
    /\ OwnKeys(heap, callerOptions) = {"hour"}
    /\ optResult.type = "object"
    /\ OwnKeys(heap, optResult) = {"year", "month", "day"}

\* C7 as stated: for every required and defaults, a field the call sets was
\* absent on the caller's options.
C7_NoValueShadowed ==
    pc = "done" => \A f \in OwnKeys(heap, optResult) : Absent(f)

\* C7 as amended: the same for the pairs whose defaults lie in the required
\* groups: required any with every defaults, (date, date) and (time, time).
C7_NoValueShadowedWithinRequired ==
    (pc = "done" /\ DefaultsGroup(defaults) \subseteq RequiredGroup(required))
        => \A f \in OwnKeys(heap, optResult) : Absent(f)

C7_Witness ==
    /\ pc = "done"
    /\ required = "time" /\ defaults = "time"
    /\ callerOptions.type = "object"
    /\ OwnKeys(heap, callerOptions) = {"year"}
    /\ OwnValue(heap, callerOptions, "year").val = "2-digit"
    /\ OwnKeys(heap, optResult) = {"hour", "minute", "second"}
    /\ GetProperty(heap, optResult, "year").val = "2-digit"

-----------------------------------------------------------------------------
(* Initialize on the hour-cycle inputs: every choice of hour12, hourCycle  *)
(* and hour on the options, every "hc" extension of the resolved locale    *)
(* with or without a "ca" extension, and every behaviour of the engine.    *)

InitializeCall ==
    /\ pc = "ready"
    /\ LET ret == Initialize(heap, dtf, callerOptions, r, icu)
       IN  /\ initStatus' = ret.status
           /\ dtf' = ret.dtf
           /\ heap' = ret.heap
           /\ optResult' = ret.options
           /\ skeleton' = ret.skeleton
           /\ requests' = ret.requests
    /\ pc' = "done"
    /\ UNCHANGED <<callerOptions, required, defaults, r, icu, tzVars,
                   partsVars, callVars>>

\* the own properties that chosen gives a value, hour12 a boolean
HourCycleProperties(chosen) ==
    (IF chosen.hour12 = "" THEN <<>>
     ELSE <<[key |-> "hour12",
             value |-> BooleanValue(chosen.hour12 = "true")]>>)
    \o OwnProperties(<<"hourCycle", "hour">>, chosen, 1)

HourCycleChoices ==
    [hour12    : {"", "true", "false"},
     hourCycle : {"", "h11", "h12", "h23", "h24", "h25"},
     hour      : {"", "numeric", "2-digit"}]

Engines ==
    [hourChar : {"K", "h", "H", "k"},
     literal  : {"", "h", "K", "k"},
     rejects  : {"none", "extended", "all"}]

HourCycleInit ==
    /\ pc = "ready"
    /\ \E chosen \in HourCycleChoices :
          heap = <<[proto |-> Null, own |-> HourCycleProperties(chosen)]>>
    /\ callerOptions = ObjectRef(1)
    /\ required = "any" /\ defaults = "date"
    /\ optResult = Undefined
    /\ \E hc \in {"", "h11", "h12", "h23", "h24"}, ca \in {"", "buddhist"} :
          r = ResolvedLocale("en", [hc |-> hc, ca |-> ca])
    /\ icu \in Engines
    /\ dtf = NewDateTimeFormat
    /\ initStatus = "none"
    /\ requests = <<>>
    /\ skeleton = <<>>
    /\ TzIdle /\ PartsIdle
    /\ CallIdle

HourCycleNext == InitializeCall

SpecHourCycle == HourCycleInit /\ [][HourCycleNext]_vars

-----------------------------------------------------------------------------
(* Claims about the hour cycle, checked under SpecHourCycle.               *)

Hour12Given    == ~Absent("hour12")
Hour12Is(b)    == Hour12Given /\ CallerValue("hour12").val = b
HourCycleGiven == ~Absent("hourCycle")
HourRequested  == ~Absent("hour")

\* the HourCycle an option or extension string names
NamedHourCycle(str) ==
    CASE str = "h11" -> "kH11" [] str = "h12" -> "kH12"
      [] str = "h23" -> "kH23" [] str = "h24" -> "kH24"

\* C2 as stated: with hour12 = true the hour cycle of the config is h11 or
\* h12, whatever the hourCycle option and the "hc" extension are.
C2_Hour12TrueIsH11OrH12 ==
    (initStatus = "ok" /\ Hour12Is(TRUE))
        => dtf.hour_cycle \in {"kH11", "kH12"}

\* C2 as amended: with hour12 = true the hour cycle of the config is h11 or
\* h12 when an hour field is requested and undefined when none is; it is
\* never h23 or h24.
C2_Hour12TrueNever24 ==
    (initStatus = "ok" /\ Hour12Is(TRUE)) =>
        /\ HourRequested => dtf.hour_cycle \in {"kH11", "kH12"}
        /\ ~HourRequested => dtf.hour_cycle = "kUndefined"
        /\ dtf.hour_cycle \notin {"kH23", "kH24"}

\* hour12 = true over hourCycle = "h23" and the extension "h24"
C2_Witness ==
    /\ initStatus = "ok"
    /\ Hour12Is(TRUE)
    /\ HourCycleGiven /\ CallerValue("hourCycle").val = "h23"
    /\ r.extensions.hc = "h24"
    /\ HourRequested
    /\ dtf.hour_cycle = "kH12"

\* the first of K, h, H, k that occurs in the pattern
FirstHourSymbol(pattern) ==
    LET occurring == { i \in 1..4 : Contains(pattern, <<"K", "h", "H", "k">>[i]) }
    IN  IF occurring = {} THEN "kUndefined"
        ELSE <<"kH11", "kH12", "kH23", "kH24">>[
                 CHOOSE i \in occurring : \A j \in occurring : i <= j]

\* C3: when an hour field is requested the hour cycle stored is h12 for
\* hour12 true and h23 for hour12 false; else the hourCycle option if set;
\* else the "hc" extension of the locale if present; else the cycle of the
\* first of K, h, H, k that occurs in the generated pattern.
C3_HourCyclePrecedence ==
    (initStatus = "ok" /\ HourRequested) =>
        dtf.hour_cycle =
            IF Hour12Is(TRUE) THEN "kH12"
            ELSE IF Hour12Is(FALSE) THEN "kH23"
            ELSE IF HourCycleGiven
            THEN NamedHourCycle(CallerValue("hourCycle").val)
            ELSE IF r.extensions.hc # "" THEN NamedHourCycle(r.extensions.hc)
            ELSE FirstHourSymbol(dtf.icu_simple_date_format.pattern)

\* no option and no extension: the pattern H'h' holds both h and H
C3_Witness ==
    /\ initStatus = "ok"
    /\ HourRequested /\ ~Hour12Given /\ ~HourCycleGiven
    /\ r.extensions.hc = ""
    /\ Contains(dtf.icu_simple_date_format.pattern, "H")
    /\ Contains(dtf.icu_simple_date_format.pattern, "h")
    /\ dtf.hour_cycle = "kH12"

\* the formatter is built for the locale as resolved
BuiltOnFirstAttempt ==
    \/ icu.rejects = "none"
    \/ icu.rejects = "extended" /\ r.icu_locale.keywords = NoKeywords

\* C4: after a successful initialize, if hour12 or hourCycle was supplied
\* and the "hc" extension of the locale differs from the hour cycle stored,
\* the locale of the config has no "hc" extension; if neither was supplied
\* and the formatter was built on the first attempt, the "hc" extension is
\* kept as it was.
C4_HcExtensionReconciled ==
    initStatus = "ok" =>
        /\ ( /\ Hour12Given \/ HourCycleGiven
             /\ r.extensions.hc # ""
             /\ NamedHourCycle(r.extensions.hc) # dtf.hour_cycle )
           => dtf.icu_locale.keywords.hc = ""
        /\ (~Hour12Given /\ ~HourCycleGiven /\ BuiltOnFirstAttempt)
           => dtf.icu_locale.keywords.hc = r.icu_locale.keywords.hc

\* hourCycle "h23" against the extension "h12": the extension is removed and
\* the "ca" extension stays
C4_Witness ==
    /\ initStatus = "ok"
    /\ HourCycleGiven /\ CallerValue("hourCycle").val = "h23"
    /\ HourRequested
    /\ r.extensions.hc = "h12" /\ r.extensions.ca = "buddhist"
    /\ dtf.hour_cycle = "kH23"
    /\ dtf.icu_locale.keywords.hc = ""
    /\ dtf.icu_locale.keywords.ca = "buddhist"

-----------------------------------------------------------------------------
(* Initialize on the skeleton inputs: an options object that is given up   *)
(* to MaxOptions properties one after the other, each a field with one of  *)
(* its values (or a value that is not allowed) or an hourCycle, and a      *)
(* locale with or without an "hc" extension.                               *)

FieldValues ==
    [weekday      |-> kNarrowLongShort,
     era          |-> kNarrowLongShort,
     year         |-> k2DigitNumeric \cup {"bogus"},
     month        |-> kNarrowLongShort2DigitNumeric,
     day          |-> k2DigitNumeric,
     hour         |-> k2DigitNumeric,
     minute       |-> k2DigitNumeric,
     second       |-> k2DigitNumeric,
     timeZoneName |-> kLongShort,
     hourCycle    |-> {"h11", "h12", "h23", "h24"}]

SkeletonInit ==
    /\ pc = "ready"
    /\ \/ heap = <<>> /\ callerOptions = Undefined
       \/ heap = <<[proto |-> Null, own |-> <<>>]>>
          /\ callerOptions = ObjectRef(1)
    /\ required = "any" /\ defaults = "date"
    /\ optResult = Undefined
    /\ \E hc \in {"", "h24"} : r = ResolvedLocale("en", [hc |-> hc, ca |-> ""])
    /\ icu = [hourChar |-> "h", literal |-> "", rejects |-> "none"]
    /\ dtf = NewDateTimeFormat
    /\ initStatus = "none"
    /\ requests = <<>>
    /\ skeleton = <<>>
    /\ TzIdle /\ PartsIdle
    /\ CallIdle

\* The caller writes one more property on the options object.
SetOption(key, value) ==
    /\ pc = "ready"
    /\ callerOptions.type = "object"
    /\ Len(heap[callerOptions.id].own) < MaxOptions
    /\ ~HasOwnProperty(heap, callerOptions, key)
    /\ heap' = CreateDataProperty(heap, callerOptions, key, StringValue(value))
    /\ UNCHANGED <<pc, callerOptions, required, defaults, optResult, tzVars,
                   partsVars, initVars, callVars>>

SkeletonNext ==
    \/ \E key \in DOMAIN FieldValues :
          \E value \in FieldValues[key] : SetOption(key, value)
    \/ InitializeCall

SpecSkeleton == SkeletonInit /\ [][SkeletonNext]_vars

-----------------------------------------------------------------------------
(* Claims about the skeleton, checked under SpecSkeleton.                  *)

\* the hour cycle the options and the locale settle before the skeleton is
\* built (undefined: left to the pattern)
NegotiatedHourCycle ==
    IF Hour12Is(TRUE) THEN "kH12"
    ELSE IF Hour12Is(FALSE) THEN "kH23"
    ELSE IF HourCycleGiven THEN NamedHourCycle(CallerValue("hourCycle").val)
    ELSE IF r.extensions.hc # "" THEN NamedHourCycle(r.extensions.hc)
    ELSE "kUndefined"

HourSymbol(hc) ==
    CASE hc = "kH11" -> "K" [] hc = "kH12" -> "h" [] hc = "kH23" -> "H"
      [] hc = "kH24" -> "k" [] hc = "kUndefined" -> "j"

\* the token of a field for a value, by Table 5 of the source's comments
FieldToken(field, value, hc) ==
    CASE field = "weekday" ->
           Rep("E", CASE value = "narrow" -> 5 [] value = "long" -> 4
                      [] value = "short" -> 3)
      [] field = "era" ->
           Rep("G", CASE value = "narrow" -> 5 [] value = "long" -> 4
                      [] value = "short" -> 3)
      [] field = "year" -> Rep("y", IF value = "2-digit" THEN 2 ELSE 1)
      [] field = "month" ->
           Rep("M", CASE value = "narrow" -> 5 [] value = "long" -> 4
                      [] value = "short" -> 3 [] value = "2-digit" -> 2
                      [] value = "numeric" -> 1)
      [] field = "day" -> Rep("d", IF value = "2-digit" THEN 2 ELSE 1)
      [] field = "hour" ->
           Rep(HourSymbol(hc), IF value = "2-digit" THEN 2 ELSE 1)
      [] field = "minute" -> Rep("m", IF value = "2-digit" THEN 2 ELSE 1)
      [] field = "second" -> Rep("s", IF value = "2-digit" THEN 2 ELSE 1)
      [] field = "timeZoneName" -> Rep("z", IF value = "long" THEN 4 ELSE 1)

FieldOrder == <<"weekday", "era", "year", "month", "day", "hour", "minute",
                "second", "timeZoneName">>

\* the tokens of the fields from the i-th on that the options object Initialize
\* reads gives a value, in the fixed order
RECURSIVE TokensInOrder(_, _)
TokensInOrder(i, hc) ==
    IF i > Len(FieldOrder) THEN <<>>
    ELSE LET v == GetProperty(heap, optResult, FieldOrder[i])
         IN  (IF IsUndefined(v) THEN <<>>
              ELSE FieldToken(FieldOrder[i], v.val, hc))
             \o TokensInOrder(i + 1, hc)

\* C8: the skeleton is the concatenation, in the order weekday, era, year,
\* month, day, hour, minute, second, timeZoneName, of one token for each
\* requested field, whatever the order the options were written in; the hour
\* token is K, h, H, k or j by the hour cycle (doubled for 2-digit), and a
\* field that is not requested adds nothing.
C8_SkeletonInFieldOrder ==
    initStatus = "ok" => skeleton = TokensInOrder(1, NegotiatedHourCycle)

\* second written before weekday
C8_Witness ==
    /\ initStatus = "ok"
    /\ callerOptions.type = "object"
    /\ Len(heap[callerOptions.id].own) = 2
    /\ heap[callerOptions.id].own[1] =
          [key |-> "second", value |-> StringValue("2-digit")]
    /\ heap[callerOptions.id].own[2] =
          [key |-> "weekday", value |-> StringValue("narrow")]
    /\ skeleton = <<"E", "E", "E", "E", "E", "s", "s">>

-----------------------------------------------------------------------------
(* Formatting calls: a config that Initialize built, for one of the        *)
(* engines and locales, and a date argument: undefined, NaN, an infinity   *)
(* or a time value at, next to or far within the limit of TimeClip.        *)

FormatConfigs ==
    { ret.dtf :
        ret \in { Initialize(<<>>, NewDateTimeFormat, Undefined,
                             ResolvedLocale("en", [hc |-> hc, ca |-> ""]),
                             engine) :
                    hc \in {"", "h23"}, engine \in Engines } }

TimeValues ==
    { NaN, NumberValue("Infinity", 0), NumberValue("-Infinity", 0) }
    \cup { Finite(d) : d \in { -kMaxTimeInDays - 1, -kMaxTimeInDays, -1, 0,
                               17836, kMaxTimeInDays, kMaxTimeInDays + 1 } }

\* JSDate::CurrentTimeValue
CurrentTimeValues == { Finite(17836), Finite(20393) }

\* what the engine formats a time value to, with its field positions
EngineOutputs ==
    { [formatted |-> <<>>, positions |-> <<>>],
      [formatted |-> <<"7">>,
       positions |-> <<[begin |-> 0, end |-> 1,
                        field |-> "UDAT_HOUR_OF_DAY0_FIELD"]>>],
      [formatted |-> <<"7", ":", "7">>,
       positions |-> <<[begin |-> 0, end |-> 1,
                        field |-> "UDAT_HOUR_OF_DAY0_FIELD"],
                       [begin |-> 2, end |-> 3,
                        field |-> "UDAT_MINUTE_FIELD"]>>] }

FormatInit ==
    /\ pc = "ready"
    /\ dtf \in { d \in FormatConfigs : ~d.icu_simple_date_format.null }
    /\ initStatus = "ok"
    /\ r = ResolvedLocale("en", NoKeywords)
    /\ icu = [hourChar |-> "h", literal |-> "", rejects |-> "none"]
    /\ skeleton = <<>>
    /\ requests = <<>>
    /\ date \in {Undefined} \cup TimeValues
    /\ callResult = Undefined
    /\ TzIdle /\ PartsIdle /\ OptIdle /\ CacheIdle

\* Intl.DateTimeFormat.prototype.format
DateTimeFormatCall ==
    /\ pc = "ready"
    /\ \E now \in CurrentTimeValues :
          callResult' = DateTimeFormat(dtf, date, now)
    /\ pc' = "DateTimeFormat"
    /\ UNCHANGED <<date, cache, calls, tzVars, partsVars, optVars, initVars>>

\* Intl.DateTimeFormat.prototype.formatToParts
FormatToPartsEntryCall ==
    /\ pc = "ready"
    /\ \E now \in CurrentTimeValues, out \in EngineOutputs :
          callResult' = DateTimeFormatPrototypeFormatToParts(
                            dtf, date, now, out.formatted, out.positions)
    /\ pc' = "FormatToParts"
    /\ UNCHANGED <<date, cache, calls, tzVars, partsVars, optVars, initVars>>

FormatNext == DateTimeFormatCall \/ FormatToPartsEntryCall

SpecFormat == FormatInit /\ [][FormatNext]_vars

-----------------------------------------------------------------------------
(* Claims about formatting calls, checked under SpecFormat.                *)

\* t is NaN, infinite or outside the range of time values
NotATimeValue(t) ==
    \/ t.kind \in {"NaN", "Infinity", "-Infinity"}
    \/ t.days < -kMaxTimeInDays
    \/ t.days > kMaxTimeInDays

InvalidTimeValue == [status |-> "RangeError", message |-> "kInvalidTimeValue"]

\* C13: format fails with InvalidTimeValue exactly when the time value is
\* NaN, infinite or outside the range of dates; for every other time value
\* it returns the text the engine formats it to, and throws nothing.
C13_FormatInvalidTimeValue ==
    (pc = "DateTimeFormat" /\ ~IsUndefined(date)) =>
        IF NotATimeValue(date)
        THEN callResult = InvalidTimeValue
        ELSE /\ callResult.status = "ok"
             /\ callResult.value.pattern = dtf.icu_simple_date_format.pattern
             /\ callResult.value.date = date.days

\* one day past the limit
C13_Witness ==
    /\ pc = "DateTimeFormat"
    /\ date = Finite(kMaxTimeInDays + 1)
    /\ callResult = InvalidTimeValue

-----------------------------------------------------------------------------
(* Initialize on the time zone inputs: options with or without a timeZone, *)
(* an hourCycle and a year, each valid or not.                             *)

TimeZoneOptions ==
    { EmptyString,
      Str(<<"u","t","c">>),
      Str(<<"e","t","c","/","g","m","t","+","5">>),
      Str(<<"E","t","c","/","G","M","T","+","1","5">>),
      Str(<<"E","S","T","5","E","D","T">>),
      Str(<<"m","a","r","s","/","p","h","o","b","o","s">>) }

TimeZoneInit ==
    /\ pc = "ready"
    /\ \E given \in BOOLEAN, tz \in TimeZoneOptions,
          chosen \in [hourCycle : {"", "h23", "h25"}, year : {"", "bogus"}] :
          /\ heap = <<[proto |-> Null,
                       own |-> OwnProperties(<<"hourCycle", "year">>, chosen, 1)
                               \o (IF given
                                   THEN <<[key |-> "timeZone",
                                           value |-> StringValue(tz)]>>
                                   ELSE <<>>)]>>
          /\ (~given => tz = EmptyString)
    /\ callerOptions = ObjectRef(1)
    /\ required = "any"
    /\ defaults = "date"
    /\ optResult = Undefined
    /\ r = ResolvedLocale("en", NoKeywords)
    /\ icu \in { e \in Engines : e.hourChar = "h" /\ e.literal = "" }
    /\ dtf = NewDateTimeFormat
    /\ initStatus = "none"
    /\ requests = <<>>
    /\ skeleton = <<>>
    /\ TzIdle /\ PartsIdle
    /\ CallIdle

TimeZoneNext == InitializeCall

SpecTimeZone == TimeZoneInit /\ [][TimeZoneNext]_vars

-----------------------------------------------------------------------------
(* Claims about the time zone of Initialize, checked under SpecTimeZone.   *)

TimeZoneGiven == ~Absent("timeZone")

\* the timeZone option does not canonicalize, or the engine has no such zone
TimeZoneRejected ==
    LET canonical == CanonicalizeTimeZoneID(CallerValue("timeZone").val)
    IN  canonical = EmptyString \/ canonical \notin IcuTimeZones

\* C15 as stated: initialize fails with InvalidTimeZone exactly when a
\* timeZone option is given and it does not canonicalize or the engine
\* rejects the canonical id.
C15_InvalidTimeZoneExactly ==
    pc = "done" =>
        (initStatus = "InvalidTimeZone"
            <=> (TimeZoneGiven /\ TimeZoneRejected))

\* the hourCycle option, read before the time zone, is one of its values
HourCycleReadable ==
    Absent("hourCycle")
    \/ CallerValue("hourCycle").val \in {"h11", "h12", "h23", "h24"}

\* C15 as amended: when the options read before timeZone are valid,
\* initialize fails with InvalidTimeZone exactly when a timeZone option is
\* given and is rejected; it never fails with InvalidTimeZone otherwise, and
\* without a timeZone option a config has the default zone.
C15_InvalidTimeZoneAfterEarlierOptions ==
    pc = "done" =>
        /\ HourCycleReadable =>
              (initStatus = "InvalidTimeZone"
                  <=> (TimeZoneGiven /\ TimeZoneRejected))
        /\ initStatus = "InvalidTimeZone"
              => (TimeZoneGiven /\ TimeZoneRejected)
        /\ (initStatus = "ok" /\ ~TimeZoneGiven)
              => dtf.icu_simple_date_format.calendar.time_zone
                     = DefaultTimeZoneID

\* "mars/phobos" canonicalizes to "Mars/Phobos", which the engine rejects,
\* and the year that is no year value is not reached
C15_Witness ==
    /\ pc = "done"
    /\ TimeZoneGiven
    /\ CallerValue("timeZone").val
          = Str(<<"m","a","r","s","/","p","h","o","b","o","s">>)
    /\ ~Absent("year")
    /\ initStatus = "InvalidTimeZone"

-----------------------------------------------------------------------------
(* Initialize on an object as allocated: its locale and formatter are not  *)
(* set, and its flags hold whatever the allocation left in them, any of    *)
(* the hour cycles.  The options fail at the hourCycle, at the time zone,  *)
(* at a field, or not at all.                                              *)

AllocatedDateTimeFormats ==
    { [NewDateTimeFormat EXCEPT !.hour_cycle = flags] :
        flags \in {"kUndefined", "kH11", "kH12", "kH23", "kH24"} }

AllocatedInit ==
    /\ pc = "ready"
    /\ \E tz \in { EmptyString, Str(<<"u","t","c">>),
                    Str(<<"m","a","r","s","/","p","h","o","b","o","s">>) },
          chosen \in [hourCycle : {"", "h25"}, hour : {"", "numeric"},
                      year : {"", "bogus"}] :
          heap = <<[proto |-> Null,
                    own |-> OwnProperties(<<"hourCycle", "hour", "year">>,
                                          chosen, 1)
                            \o (IF tz = EmptyString THEN <<>>
                                ELSE <<[key |-> "timeZone",
                                        value |-> StringValue(tz)]>>)]>>
    /\ callerOptions = ObjectRef(1)
    /\ required = "any"
    /\ defaults = "date"
    /\ optResult = Undefined
    /\ r = ResolvedLocale("en", NoKeywords)
    /\ icu = [hourChar |-> "h", literal |-> "", rejects |-> "none"]
    /\ dtf \in AllocatedDateTimeFormats
    /\ initStatus = "none"
    /\ requests = <<>>
    /\ skeleton = <<>>
    /\ TzIdle /\ PartsIdle
    /\ CallIdle

AllocatedNext == InitializeCall

SpecAllocated == AllocatedInit /\ [][AllocatedNext]_vars

-----------------------------------------------------------------------------
(* Claims about a failing Initialize, checked under SpecAllocated.         *)

InitializeFailed(status) == status \in {"RangeError", "InvalidTimeZone"}

C16_OnlyFlagsReset ==
    [][(pc' = "done" /\ InitializeFailed(initStatus'))
          => dtf' = [dtf EXCEPT !.hour_cycle = "kUndefined"]]_vars

-----------------------------------------------------------------------------
(* Convenience formatting calls (toLocaleString, toLocaleDateString,       *)
(* toLocaleTimeString) on one isolate: up to MaxCalls calls are begun and  *)
(* the parts of each run in any order with the parts of the others, as     *)
(* when an options getter of one call makes another call.                  *)

\* the options object a caller may pass: {hour: "numeric"}
CallOptionsHeap ==
    <<[proto |-> Null,
       own |-> <<[key |-> "hour", value |-> StringValue("numeric")]>>]>>

\* required and defaults of the three entry points
EntryPoints ==
    { [required |-> "any", defaults |-> "all"],
      [required |-> "date", defaults |-> "date"],
      [required |-> "time", defaults |-> "time"] }

\* [date, locales, options]: a date with a time value and locales or
\* options or neither; or neither with an invalid date or no date at all
CallArguments ==
    { <<Finite(17836), Undefined, Undefined>>,
      <<Finite(17836), StringValue("de"), Undefined>>,
      <<Finite(17836), Undefined, ObjectRef(1)>>,
      <<NaN, Undefined, Undefined>>,
      <<Undefined, Undefined, Undefined>> }

EmptyCache == [t \in ICUObjectCacheTypes |-> NullFormat]

CacheInit ==
    /\ pc = "ready"
    /\ cache = EmptyCache
    /\ calls = <<>>
    /\ heap = CallOptionsHeap
    /\ callerOptions = Undefined
    /\ required = "any"
    /\ defaults = "date"
    /\ optResult = Undefined
    /\ r = ResolvedLocale("en", NoKeywords)
    /\ icu \in { e \in Engines : e.literal = "" /\ e.rejects = "none"
                                /\ e.hourChar \in {"h", "H"} }
    /\ dtf = NewDateTimeFormat
    /\ initStatus = "none"
    /\ requests = <<>>
    /\ skeleton = <<>>
    /\ TzIdle /\ PartsIdle /\ FormatIdle

\* A call is begun.
BeginCall(args, entry) ==
    /\ Len(calls) < MaxCalls
    /\ calls' = Append(calls, NewCall(args[1], args[2], args[3],
                                      entry.required, entry.defaults))
    /\ UNCHANGED <<pc, cache, date, callResult, tzVars, partsVars, optVars,
                   initVars>>

\* Call i runs up to its check of the cache.
CheckCache(i) ==
    /\ calls[i].pc = "start"
    /\ calls' = [calls EXCEPT ![i] = ToLocaleDateTimeCheck(calls[i], cache)]
    /\ UNCHANGED <<pc, cache, date, callResult, tzVars, partsVars, optVars,
                   initVars>>

\* Call i constructs its formatter; the objects it allocates are garbage
\* when it returns and are left out of heap.
Construct(i) ==
    /\ calls[i].pc = "construct"
    /\ calls' = [calls EXCEPT
                   ![i] = ToLocaleDateTimeConstruct(calls[i], i, heap, r, icu)]
    /\ UNCHANGED <<pc, cache, date, callResult, tzVars, partsVars, optVars,
                   initVars>>

\* Call i stores its formatter, if it can be cached, and returns.
StoreAndReturn(i) ==
    /\ calls[i].pc = "store"
    /\ cache' = ToLocaleDateTimeStore(calls[i], cache)
    /\ calls' = [calls EXCEPT ![i] = ToLocaleDateTimeReturn(calls[i])]
    /\ UNCHANGED <<pc, date, callResult, tzVars, partsVars, optVars,
                   initVars>>

CacheNext ==
    \/ \E args \in CallArguments, entry \in EntryPoints : BeginCall(args, entry)
    \/ \E i \in DOMAIN calls : CheckCache(i)
    \/ \E i \in DOMAIN calls : Construct(i)
    \/ \E i \in DOMAIN calls : StoreAndReturn(i)

SpecCache == CacheInit /\ [][CacheNext]_vars

-----------------------------------------------------------------------------
(* Claims about the cache, checked under SpecCache.                        *)

\* both locales and options are absent
Cacheable(call) == IsUndefined(call.locales) /\ IsUndefined(call.options)

\* the slot of a defaults kind
SlotOf(def) ==
    CASE def = "date" -> "kDefaultSimpleDateFormatForDate"
      [] def = "time" -> "kDefaultSimpleDateFormatForTime"
      [] def = "all"  -> "kDefaultSimpleDateFormat"

\* call i takes a step
Steps(i) == i \in DOMAIN calls /\ calls'[i] # calls[i]

\* C17: a call with locales or options present never takes its formatter
\* from the cache and leaves every slot as it is; a call with both absent
\* takes a formatter only from the slot of its defaults kind and changes no
\* other slot.
C17_CacheOnlyForDefaults ==
    [][\A i \in DOMAIN calls : Steps(i) =>
          IF Cacheable(calls[i])
          THEN /\ \A t \in ICUObjectCacheTypes \ {SlotOf(calls[i].defaults)} :
                     cache'[t] = cache[t]
               /\ (calls'[i].from_cache /\ ~calls[i].from_cache)
                     => calls'[i].format = cache[SlotOf(calls[i].defaults)]
          ELSE /\ cache' = cache
               /\ ~calls'[i].from_cache
               /\ ~calls'[i].format.null => calls'[i].format.owner = i]_vars

\* a call with locales has built its own formatter although the slot of
\* its kind was filled by an earlier call
C17_Witness ==
    /\ Len(calls) = 2
    /\ Cacheable(calls[1]) /\ calls[1].pc = "done"
    /\ calls[2].locales = StringValue("de")
    /\ calls[2].defaults = calls[1].defaults
    /\ calls[2].pc = "done"
    /\ calls[2].result.status = "ok"
    /\ calls[2].format.owner = 2
    /\ cache[SlotOf(calls[1].defaults)].null = FALSE
    /\ cache[SlotOf(calls[1].defaults)].owner = 1

\* what the call returns when the cache is empty
EmptyCacheResult(call, i) ==
    LET checked == ToLocaleDateTimeCheck(
                       NewCall(call.date, call.locales, call.options,
                               call.required, call.defaults), EmptyCache)
        constructed == ToLocaleDateTimeConstruct(checked, i, heap, r, icu)
    IN  IF checked.pc = "done" THEN checked.result
        ELSE IF constructed.pc = "done" THEN constructed.result
        ELSE ToLocaleDateTimeReturn(constructed).result

\* a filled slot holds the formatter of a cacheable call that constructed it
\* and has returned; a call that took its formatter from the cache has
\* written no slot; a call that has returned returned what it returns with
\* an empty cache
CacheStateOk ==
    /\ \A t \in ICUObjectCacheTypes :
          ~cache[t].null =>
              LET w == cache[t].owner
              IN  /\ w \in DOMAIN calls
                  /\ Cacheable(calls[w])
                  /\ SlotOf(calls[w].defaults) = t
                  /\ calls[w].pc = "done"
                  /\ ~calls[w].from_cache
                  /\ calls[w].format = cache[t]
    /\ \A i \in DOMAIN calls :
          /\ calls[i].from_cache =>
                /\ calls[i].format.owner # i
                /\ \A t \in ICUObjectCacheTypes :
                      cache[t].null \/ cache[t].owner # i
          /\ calls[i].pc = "done" =>
                calls[i].result = EmptyCacheResult(calls[i], i)

\* a cacheable call reads the slot before it constructs: on a filled slot
\* it returns with the formatter of the slot, on an empty one it goes on to
\* construct; it writes the slot only when it returns with the formatter it
\* constructed, which the slot then holds
CacheStepOk ==
    \A i \in DOMAIN calls : (Steps(i) /\ Cacheable(calls[i])) =>
        LET slot == SlotOf(calls[i].defaults)
        IN  /\ (calls[i].pc = "start" /\ calls'[i].pc = "construct")
                  => cache[slot].null
            /\ (calls[i].pc = "start" /\ ~cache[slot].null
                  /\ ~IsUndefined(calls[i].date) /\ calls[i].date.kind = "finite")
                  => /\ calls'[i].pc = "done"
                     /\ calls'[i].format = cache[slot]
            /\ cache' # cache =>
                  /\ calls[i].pc = "store"
                  /\ calls[i].format.owner = i
                  /\ cache'[slot] = calls[i].format
            /\ calls[i].pc = "store" => cache'[slot] = calls[i].format

-----------------------------------------------------------------------------
(* resolvedOptions of a config: Initialize on options with or without an   *)
(* hour cycle, an hour, a weekday and a time zone, for locales with and    *)
(* without a calendar, and then ResolvedOptions.                           *)

\* heap[2] is %ObjectPrototype%
ObjectFunctionPrototype == ObjectRef(Len(<<"options", "%ObjectPrototype%">>))

ResolvedEngines ==
    [hourChar : {"h", "k"}, literal : {"", "h"}, rejects : {"none"},
     numbering_system : {"", "latn"}, canonical_id_ok : BOOLEAN]

ResolvedInit ==
    /\ pc = "ready"
    /\ \E tz \in { EmptyString, Str(<<"u","t","c">>),
                    Str(<<"E","t","c","/","G","M","T","0">>),
                    Str(<<"e","t","c","/","g","m","t","+","5">>) },
          chosen \in [hourCycle : {"", "h11", "h23"}, hour : {"", "numeric"},
                      weekday : {"", "long"}] :
          heap = <<[proto |-> Null,
                    own |-> OwnProperties(<<"hourCycle", "hour", "weekday">>,
                                          chosen, 1)
                            \o (IF tz = EmptyString THEN <<>>
                                ELSE <<[key |-> "timeZone",
                                        value |-> StringValue(tz)]>>)],
                   [proto |-> Null, own |-> <<>>]>>
    /\ callerOptions = ObjectRef(1)
    /\ required = "any"
    /\ defaults = "date"
    /\ optResult = Undefined
    /\ \E ca \in {"", "gregory", "ethioaa", "buddhist"} :
          r = ResolvedLocale("en", [hc |-> "", ca |-> ca])
    /\ icu \in ResolvedEngines
    /\ dtf = NewDateTimeFormat
    /\ initStatus = "none"
    /\ requests = <<>>
    /\ skeleton = <<>>
    /\ TzIdle /\ PartsIdle
    /\ CallIdle

ResolvedOptionsCall ==
    /\ pc = "done"
    /\ initStatus = "ok"
    /\ LET ret == ResolvedOptions(heap, ObjectFunctionPrototype, dtf, icu)
       IN  /\ heap' = ret.heap
           /\ callResult' = Returned(ret.object)
    /\ pc' = "resolved"
    /\ UNCHANGED <<callerOptions, required, defaults, optResult, date, cache,
                   calls, tzVars, partsVars, initVars>>

ResolvedNext == InitializeCall \/ ResolvedOptionsCall

SpecResolved == ResolvedInit /\ [][ResolvedNext]_vars

-----------------------------------------------------------------------------
(* Claims about resolvedOptions, checked under SpecResolved.               *)

ResolvedTable ==
    <<"locale", "calendar", "numberingSystem", "timeZone", "hourCycle",
      "hour12", "weekday", "era", "year", "month", "day", "hour", "minute",
      "second", "timeZoneName">>

TableIndex(key) == CHOOSE i \in 1..Len(ResolvedTable) : ResolvedTable[i] = key

\* the keys of the object resolvedOptions returned, in the order emitted
ResolvedKeys ==
    LET own == heap[callResult.value.id].own
    IN  [i \in 1..Len(own) |-> own[i].key]

ResolvedHas(key) == \E i \in DOMAIN ResolvedKeys : ResolvedKeys[i] = key
ResolvedValue(key) == OwnValue(heap, callResult.value, key)
KeyPosition(key) == CHOOSE i \in DOMAIN ResolvedKeys : ResolvedKeys[i] = key

\* C19: the keys come in the order locale, calendar, numberingSystem,
\* timeZone, hourCycle, hour12, weekday, era, year, month, day, hour, minute,
\* second, timeZoneName; hour12 is present exactly when hourCycle is, right
\* after it, true for h11 and h12 and false for h23 and h24;
\* numberingSystem is left out when empty; "gregorian" is reported as
\* "gregory" and "ethiopic-amete-alem" as "ethioaa"; an engine zone id of
\* "Etc/UTC" or "Etc/GMT" is reported as "UTC".
C19_ResolvedOptionsOrder ==
    pc = "resolved" =>
        LET calendar == dtf.icu_simple_date_format.calendar
            zone     == GetCanonicalID(TimeZoneGetID(calendar))
        IN  /\ \A i \in DOMAIN ResolvedKeys :
                  \E k \in 1..Len(ResolvedTable) : ResolvedTable[k] = ResolvedKeys[i]
            /\ \A i, j \in DOMAIN ResolvedKeys :
                  i < j => TableIndex(ResolvedKeys[i]) < TableIndex(ResolvedKeys[j])
            /\ ResolvedHas("locale") /\ ResolvedHas("calendar")
            /\ ResolvedHas("timeZone")
            /\ ResolvedHas("hourCycle") <=> dtf.hour_cycle # "kUndefined"
            /\ ResolvedHas("hour12") <=> ResolvedHas("hourCycle")
            /\ ResolvedHas("hourCycle") =>
                  /\ KeyPosition("hour12") = KeyPosition("hourCycle") + 1
                  /\ ResolvedValue("hourCycle").val \in {"h11", "h12", "h23", "h24"}
                  /\ ResolvedValue("hour12")
                        = BooleanValue(ResolvedValue("hourCycle").val
                                          \in {"h11", "h12"})
            /\ ResolvedHas("numberingSystem") <=> icu.numbering_system # ""
            /\ CalendarGetType(calendar) = "gregorian"
                  => ResolvedValue("calendar").val = "gregory"
            /\ CalendarGetType(calendar) = "ethiopic-amete-alem"
                  => ResolvedValue("calendar").val = "ethioaa"
            /\ (icu.canonical_id_ok
                  /\ zone \in { Str(<<"E","t","c","/","U","T","C">>),
                                Str(<<"E","t","c","/","G","M","T">>) })
                  => ResolvedValue("timeZone") = StringValue(Str(<<"U","T","C">>))

\* an h11 config of the ethioaa calendar in the zone Etc/GMT0
C19_Witness ==
    /\ pc = "resolved"
    /\ ResolvedKeys = <<"locale", "calendar", "numberingSystem", "timeZone",
                        "hourCycle", "hour12", "weekday", "hour">>
    /\ ResolvedValue("calendar") = StringValue("ethioaa")
    /\ ResolvedValue("timeZone") = StringValue(Str(<<"U","T","C">>))
    /\ ResolvedValue("hourCycle") = StringValue("h11")
    /\ ResolvedValue("hour12") = BooleanValue(TRUE)

-----------------------------------------------------------------------------
(* Claim about the attempts to build the formatter, checked under          *)
(* SpecHourCycle: its engines build a formatter for every locale, for a    *)
(* locale without keywords only, or for none.                              *)

\* C20: Initialize asks the engine for a formatter at most twice, first for
\* the resolved locale; it asks a second time exactly when the first attempt
\* failed, and then for the locale without its extension keywords; when the
\* second attempt succeeds the locale stored is that stripped locale, and
\* when it fails Initialize ends in FATAL and stores no formatter or locale.
C20_BuildAttempts ==
    /\ Len(requests) <= 2
    /\ (pc = "done" /\ requests # <<>>) =>
          /\ requests[1] = r.icu_locale
          /\ Len(requests) = 2 <=> ConstructorFails(icu, r.icu_locale)
          /\ Len(requests) = 2 =>
                /\ requests[2] = BaseNameLocale(r.icu_locale)
                /\ requests[2].keywords = NoKeywords
                /\ ~ConstructorFails(icu, requests[2]) =>
                      /\ initStatus = "ok"
                      /\ dtf.icu_locale = BaseNameLocale(r.icu_locale)
                      /\ dtf.icu_simple_date_format.locale
                            = BaseNameLocale(r.icu_locale)
                /\ ConstructorFails(icu, requests[2]) =>
                      /\ initStatus = "Fatal"
                      /\ dtf.icu_locale = NullFormat
                      /\ dtf.icu_simple_date_format = NullFormat
    /\ (pc = "done" /\ initStatus \in {"ok", "Fatal"}) => requests # <<>>

\* the engine refused the locale with keywords and took the stripped one
C20_Witness ==
    /\ pc = "done"
    /\ initStatus = "ok"
    /\ r.icu_locale.keywords # NoKeywords
    /\ requests = <<r.icu_locale, BaseNameLocale(r.icu_locale)>>
    /\ dtf.icu_locale = BaseNameLocale(r.icu_locale)

\* the engine refused both locales
C20_FatalWitness ==
    /\ pc = "done"
    /\ initStatus = "Fatal"
    /\ Len(requests) = 2

-----------------------------------------------------------------------------
(* resolvedOptions of a config whose formatter has any pattern of up to    *)
(* MaxPattern pattern letters.                                             *)

PatternLetters == {"E", "y", "M", "L", "d", "z"}

PatternStrings ==
    UNION { [1..n -> PatternLetters] : n \in 0..MaxPattern }

\* a config as a successful Initialize leaves it, with this pattern
PatternConfig(pattern) ==
    LET icu_locale == Locale("en", NoKeywords)
    IN  [hour_cycle |-> "kUndefined",
         icu_locale |-> icu_locale,
         icu_simple_date_format |->
             [null |-> FALSE, pattern |-> pattern, locale |-> icu_locale,
              calendar |-> [null |-> FALSE, locale |-> icu_locale,
                            time_zone |-> Str(<<"U","T","C">>)]]]

ReverseMapInit ==
    /\ pc = "done"
    /\ heap = <<[proto |-> Null, own |-> <<>>], [proto |-> Null, own |-> <<>>]>>
    /\ callerOptions = ObjectRef(1)
    /\ required = "any"
    /\ defaults = "date"
    /\ optResult = callerOptions
    /\ r = ResolvedLocale("en", NoKeywords)
    /\ icu = [hourChar |-> "h", literal |-> "", rejects |-> "none",
              numbering_system |-> "latn", canonical_id_ok |-> TRUE]
    /\ \E pattern \in PatternStrings : dtf = PatternConfig(pattern)
    /\ initStatus = "ok"
    /\ requests = <<r.icu_locale>>
    /\ skeleton = <<>>
    /\ TzIdle /\ PartsIdle
    /\ CallIdle

ReverseMapNext == ResolvedOptionsCall

SpecReverseMap == ReverseMapInit /\ [][ReverseMapNext]_vars

-----------------------------------------------------------------------------
(* Claim about the fields resolvedOptions reads back from the pattern,     *)
(* checked under SpecReverseMap.                                           *)

\* the pairs of an item whose token occurs in the formatter's pattern
Occurring(item) ==
    { k \in 1..Len(item.pairs) :
        Find(dtf.icu_simple_date_format.pattern, item.pairs[k].pattern) }

\* the first of them in table order
FirstOccurring(item) ==
    CHOOSE k \in Occurring(item) : \A j \in Occurring(item) : k <= j

\* token a holds token b and is longer
HoldsToken(a, b) == a # b /\ Find(a, b)

\* C21: resolvedOptions reports at most one value per field: the value of
\* the first pair in table order whose token occurs in the pattern, and no
\* property when no token of the field occurs; in every field's table a
\* token that holds another token of the field comes before it, so the pair
\* reported is never that of a shorter token held by a token of the field
\* that occurs in the pattern.
C21_ReverseMapFirstMatch ==
    /\ \A i \in 1..Len(GetPatternItems) :
          LET pairs == GetPatternItems[i].pairs
          IN  \A a, b \in 1..Len(pairs) :
                  HoldsToken(pairs[a].pattern, pairs[b].pattern) => a < b
    /\ pc = "resolved" =>
          \A i \in 1..Len(GetPatternItems) :
              LET item == GetPatternItems[i]
              IN  /\ Cardinality({ n \in DOMAIN ResolvedKeys :
                                     ResolvedKeys[n] = item.property }) <= 1
                  /\ ResolvedHas(item.property) <=> Occurring(item) # {}
                  /\ Occurring(item) # {} =>
                        /\ ResolvedValue(item.property)
                              = StringValue(item.pairs[FirstOccurring(item)].value)
                        /\ \A k \in Occurring(item) :
                              ~HoldsToken(item.pairs[k].pattern,
                                          item.pairs[FirstOccurring(item)].pattern)

\* "MMMMy": the month is long, not short, 2-digit or numeric
C21_Witness ==
    /\ pc = "resolved"
    /\ dtf.icu_simple_date_format.pattern = <<"M", "M", "M", "M", "y">>
    /\ ResolvedValue("month") = StringValue("long")
    /\ ResolvedValue("year") = StringValue("numeric")
    /\ ~ResolvedHas("day")

-----------------------------------------------------------------------------
(* Initialize and then resolvedOptions, for every choice of hour12,        *)
(* hourCycle and hour on the options and every "hc" extension of the       *)
(* resolved locale.                                                        *)

StoredEngines ==
    [hourChar : {"K", "h", "H", "k"}, literal : {"", "h"}, rejects : {"none"},
     numbering_system : {"latn"}, canonical_id_ok : {TRUE}]

StoredInit ==
    /\ pc = "ready"
    /\ \E chosen \in HourCycleChoices :
          heap = <<[proto |-> Null, own |-> HourCycleProperties(chosen)],
                   [proto |-> Null, own |-> <<>>]>>
    /\ callerOptions = ObjectRef(1)
    /\ required = "any"
    /\ defaults = "date"
    /\ optResult = Undefined
    /\ \E hc \in {"", "h11", "h12", "h23", "h24"} :
          r = ResolvedLocale("en", [hc |-> hc, ca |-> ""])
    /\ icu \in StoredEngines
    /\ dtf = NewDateTimeFormat
    /\ initStatus = "none"
    /\ requests = <<>>
    /\ skeleton = <<>>
    /\ TzIdle /\ PartsIdle
    /\ CallIdle

StoredNext == InitializeCall \/ ResolvedOptionsCall

SpecStoredHourCycle == StoredInit /\ [][StoredNext]_vars

-----------------------------------------------------------------------------
(* Claim about the hour cycle stored, checked under SpecStoredHourCycle.   *)

\* C22: without an hour requested the hour cycle stored is undefined,
\* whatever hour12, hourCycle and the "hc" extension are, and
\* resolvedOptions reports neither hourCycle nor hour12; with an hour
\* requested and hour12, hourCycle or the "hc" extension giving a cycle, the
\* hour cycle stored is not undefined.
C22_HourCycleNeedsHour ==
    (pc \in {"done", "resolved"} /\ initStatus = "ok") =>
        /\ ~HourRequested =>
              /\ dtf.hour_cycle = "kUndefined"
              /\ pc = "resolved" =>
                    (~ResolvedHas("hourCycle") /\ ~ResolvedHas("hour12"))
        /\ (HourRequested
              /\ (Hour12Given \/ HourCycleGiven \/ r.extensions.hc # ""))
              => dtf.hour_cycle # "kUndefined"

\* hour12, hourCycle and the extension are all there, the hour is not
C22_Witness ==
    /\ pc = "resolved"
    /\ Hour12Is(TRUE) /\ HourCycleGiven /\ r.extensions.hc = "h23"
    /\ ~HourRequested
    /\ dtf.hour_cycle = "kUndefined"
    /\ ~ResolvedHas("hourCycle")

\* the extension alone gives the cycle of a requested hour
C22_ExtensionWitness ==
    /\ pc = "resolved"
    /\ ~Hour12Given /\ ~HourCycleGiven /\ r.extensions.hc = "h11"
    /\ HourRequested
    /\ dtf.hour_cycle = "kH11"
    /\ ResolvedValue("hourCycle") = StringValue("h11")

-----------------------------------------------------------------------------
(* The formatter ToLocaleDateTime constructs, for every required and       *)
(* defaults, without options or with the options {hour: "numeric"}.        *)

CacheKeyInit ==
    /\ pc = "ready"
    /\ heap = CallOptionsHeap
    /\ callerOptions \in {Undefined, ObjectRef(1)}
    /\ required \in {"date", "time", "any"}
    /\ defaults \in {"date", "time", "all"}
    /\ optResult = Undefined
    /\ \E hc \in {"", "h11", "h12", "h23", "h24"} :
          r = ResolvedLocale("en", [hc |-> hc, ca |-> ""])
    /\ icu \in { e \in Engines : e.literal = "" }
    /\ dtf = NewDateTimeFormat
    /\ initStatus = "none"
    /\ requests = <<>>
    /\ skeleton = <<>>
    /\ TzIdle /\ PartsIdle
    /\ CallIdle

\* ToLocaleDateTime from ToDateTimeOptions to Initialize
ToLocaleDateTimeConstructCall ==
    /\ pc = "ready"
    /\ LET internal_options ==
               ToDateTimeOptions(heap, callerOptions, required, defaults)
           ret == Initialize(internal_options.heap, dtf,
                             internal_options.object, r, icu)
       IN  /\ initStatus' = ret.status
           /\ dtf' = ret.dtf
           /\ heap' = ret.heap
           /\ optResult' = ret.options
           /\ skeleton' = ret.skeleton
           /\ requests' = ret.requests
    /\ pc' = "done"
    /\ UNCHANGED <<callerOptions, required, defaults, r, icu, tzVars,
                   partsVars, callVars>>

CacheKeyNext == ToLocaleDateTimeConstructCall

SpecCacheKey == CacheKeyInit /\ [][CacheKeyNext]_vars

-----------------------------------------------------------------------------
(* Claim about the key of the cache, checked under SpecCacheKey.           *)

\* the fields a defaults kind stands for
DefaultFields(def) ==
    CASE def = "date" -> {"year", "month", "day"}
      [] def = "time" -> {"hour", "minute", "second"}
      [] def = "all"  -> {"year", "month", "day", "hour", "minute", "second"}

\* the fields with a value on the options object the skeleton is built from
FieldsRead ==
    { f \in {GetPatternItems[i].property : i \in 1..Len(GetPatternItems)} :
        ~IsUndefined(GetProperty(heap, optResult, f)) }

\* the skeleton of numeric year, month, day and of numeric hour, minute,
\* second for the "hc" extension of the locale
DateSkeleton == <<"y", "M", "d">>
TimeSkeleton(hc) ==
    <<IF hc = "" THEN "j" ELSE HourSymbol(NamedHourCycle(hc)), "m", "s">>

SkeletonOfDefaults(def, hc) ==
    CASE def = "date" -> DateSkeleton
      [] def = "time" -> TimeSkeleton(hc)
      [] def = "all"  -> DateSkeleton \o TimeSkeleton(hc)

\* C23: for a call with locales and options absent, the fields the skeleton
\* is built from are those of defaults, each "numeric", whatever required
\* is: year, month, day for date, hour, minute, second for time, all six for
\* all; so the skeleton is a function of defaults (and of the locale) alone.
C23_CacheKeySound ==
    (pc = "done" /\ IsUndefined(callerOptions)) =>
        /\ initStatus \in {"ok", "Fatal"}
        /\ FieldsRead = DefaultFields(defaults)
        /\ \A f \in FieldsRead :
              GetProperty(heap, optResult, f) = StringValue("numeric")
        /\ skeleton = SkeletonOfDefaults(defaults, r.extensions.hc)

\* required date with defaults time: hour, minute and second all the same
C23_Witness ==
    /\ pc = "done"
    /\ IsUndefined(callerOptions)
    /\ required = "date" /\ defaults = "time"
    /\ initStatus = "ok"
    /\ FieldsRead = {"hour", "minute", "second"}
    /\ skeleton = <<"j", "m", "s">>

\* with options the skeleton is not a function of defaults: {hour:
\* "numeric"} with required date gets year, month and day as well
C23_WithOptions ==
    /\ pc = "done"
    /\ callerOptions = ObjectRef(1)
    /\ required = "date" /\ defaults = "date"
    /\ skeleton = <<"y", "M", "d", "j">>

-----------------------------------------------------------------------------
(* Claim about the fields of the skeleton, checked under SpecSkeleton.     *)

\* the token in the skeleton of a field the options object gives a value
TokenInSkeleton(field) ==
    LET v == GetProperty(heap, optResult, field)
    IN  /\ ~IsUndefined(v)
        /\ Find(skeleton, FieldToken(field, v.val, NegotiatedHourCycle))

\* C24: after a successful Initialize the skeleton is not empty and holds
\* the token of at least one of weekday, year, month, day, hour, minute,
\* second: the caller requested one of the seven, or year, month and day
\* were defaulted to "numeric"; and in every table of GetPatternData every
\* allowed value of a field has a token, so the skeleton loop never looks up
\* a value that has none.
C24_SkeletonHasDateTimeField ==
    /\ \A hc \in {"kUndefined", "kH11", "kH12", "kH23", "kH24"} :
          \A i \in 1..Len(GetPatternData(hc)) :
              LET item == GetPatternData(hc)[i]
              IN  \A v \in item.allowed_values :
                      \E k \in 1..Len(item.pairs) :
                          item.pairs[k].value = v /\ item.pairs[k].pattern # <<>>
    /\ (pc = "done" /\ initStatus = "ok") =>
          /\ skeleton # <<>>
          /\ \E i \in 1..Len(DateTimeFields) : TokenInSkeleton(DateTimeFields[i])
          /\ \/ \E i \in 1..Len(DateTimeFields) : ~Absent(DateTimeFields[i])
             \/ \A f \in {"year", "month", "day"} :
                    /\ Absent(f)
                    /\ GetProperty(heap, optResult, f) = StringValue("numeric")

\* only era and timeZoneName are requested: year, month and day join them
C24_Witness ==
    /\ pc = "done"
    /\ initStatus = "ok"
    /\ ~Absent("era") /\ ~Absent("timeZoneName")
    /\ \A i \in 1..Len(DateTimeFields) : Absent(DateTimeFields[i])
    /\ skeleton = Rep("G", 4) \o <<"y", "M", "d">> \o Rep("z", 1)

\* no options at all
C24_NoOptionsWitness ==
    /\ pc = "done"
    /\ initStatus = "ok"
    /\ IsUndefined(callerOptions)
    /\ skeleton = <<"y", "M", "d">>

====
